---- MODULE Spec2Model ----
(***************************************************************************)
(* The messaging AI bot backend: the poll loop of backend/src/index.ts     *)
(* with the MessageIndexer (eventIndexer.ts), the MessageSender            *)
(* (messageSender.ts), the LLM service and the session key renewal, as a   *)
(* state machine.  One poll cycle is split at the awaits where the loop    *)
(* can observe a different world: the event stream, the on-chain           *)
(* membership and the stop signal change between the steps.                *)
(***************************************************************************)
EXTENDS Integers, Sequences, FiniteSets, Bags, TLC

\* ------------------------------------------------------------------ bounds
MaxEvents == 2      \* events the environment appends to the stream
MaxFailures == 1    \* injected failures (transport errors, nulls, throws)
MaxKeys == 2        \* session keys issued (the initial one and renewals)
PageLimit == 3      \* events one queryEvents page returns
MaxReplies == 2     \* replies counted for one event; further ones leave the count
MaxNow == 40        \* minutes the clock of the session key manager is followed
MemberCapPageSize == 1  \* MemberCaps one getOwnedObjects page returns
MaxKeyVersion == 2  \* versions the encryption key of a channel goes through
MaxCursor == 1      \* cursors a page of channels or messages can answer with
MaxRequests == 2    \* requests of the browser in flight at one time

\* --------------------------------------------------------------- constants
\* SuiEventsCursor = EventId | null | undefined: the null cursor.  Event ids
\* are the positions 1, 2, ... of the events in the stream.
Null == 0

\* this.startTimestamp = BigInt(Date.now()), taken in the constructor
startTimestamp == 1

botAddress == "bot"

\* config.ts: the TTL of a session key, in minutes.  Time is counted in
\* minutes from the creation of the first key.
SESSION_KEY_TTL_MINUTES == 30

\* sessionKey.ts: the cached expiry is set this many minutes before the TTL
\* elapses.
SafetyMarginMinutes == 1

\* llmService.ts, README: the conversation history is the last 10 messages
\* of the channel.
HistoryLimit == 10
Channels == {"A", "B"}

\* The bot is a member of channel A from the start; it is added to and
\* removed from channel B while it runs.
InitialChannels == {"A"}
VolatileChannels == {"B"}

\* The events the message module emits, as queryEvents reports them:
\* type, parsedJson.channel_id, parsedJson.sender and timestampMs.  One event
\* per case the filter distinguishes: a user's message in each channel, the
\* bot's own message, a message stamped before the start, a event of another
\* kind.
EventAlphabet ==
    { [type |-> "MessageAddedEvent", channel_id |-> "A", sender |-> "user",
       timestampMs |-> startTimestamp],
      [type |-> "MessageAddedEvent", channel_id |-> "B", sender |-> "user",
       timestampMs |-> startTimestamp],
      [type |-> "MessageAddedEvent", channel_id |-> "A", sender |-> botAddress,
       timestampMs |-> startTimestamp],
      [type |-> "MessageAddedEvent", channel_id |-> "A", sender |-> "user",
       timestampMs |-> startTimestamp - 1],
      [type |-> "MessageDeletedEvent", channel_id |-> "A", sender |-> "user",
       timestampMs |-> startTimestamp] }

\* config.ts: the environment with the private key of the bot and the API
\* key of the model both set.
ValidEnv == [ BOT_PRIVATE_KEY |-> "valid", OPENAI_API_KEY |-> "set" ]

VARIABLES
    \* the world
    stream,             \* the append-only event stream of the message module
    chainMembers,       \* channels for which the bot owns a MemberCap on chain
    encryptionKeyHistory, \* channel -> encryption_key_history.latest_version
    processEnv,         \* process.env: BOT_PRIVATE_KEY and OPENAI_API_KEY
    \* index.ts
    exitCode,           \* the code of process.exit, "none" while it runs
    isRunning,          \* let isRunning
    pc,                 \* position of pollLoop
    lastCursor,         \* let lastCursor
    currentSessionKey,  \* let currentSessionKey (the id of the key)
    messages,           \* const { messages, nextCursor } of this cycle
    nextCursor,
    idx,                \* position of `for (const msg of messages)`
    \* eventIndexer.ts / messageSender.ts
    botMemberChannels,  \* MessageIndexer.botMemberChannels
    indexerClient,      \* MessageIndexer.messagingClient (the key it holds)
    senderClient,       \* MessageSender.messagingClient (the key it holds)
    \* sessionKey.ts
    now,                \* Date.now(), in minutes
    cachedSessionKey,   \* let cachedSessionKey (the id of the key, or Null)
    sessionKeyExpiry,   \* let sessionKeyExpiry (or Null)
    createdAt,          \* key id -> creation time of the SessionKey (or Null)
    \* bookkeeping of what happened, read by the properties only
    failures,           \* failures injected so far
    replies,            \* event id -> replies delivered to its channel
    retry,              \* the last cycle a failed dispatch ended, until refetched
    cycle,              \* the record of the current cycle
    \* frontend: App.tsx, Channel, ChannelList and the hooks of the view shown
    browser             \* the state of the mounted view and its requests

vars == << stream, chainMembers, encryptionKeyHistory, processEnv, exitCode,
           isRunning, pc, lastCursor, currentSessionKey,
           messages, nextCursor, idx, botMemberChannels, indexerClient,
           senderClient, now, cachedSessionKey, sessionKeyExpiry, createdAt,
           failures, replies, retry, cycle, browser >>

manager == << now, cachedSessionKey, sessionKeyExpiry, createdAt >>

process == << processEnv, exitCode >>

Min(a, b) == IF a < b THEN a ELSE b

Range(s) == { s[i] : i \in 1..Len(s) }

\* The record of a cycle: the cursor it started with, the getOwnedObjects
\* page at which the membership refresh failed, the raw page fetched,
\* the decrypts that returned null, the sendMessage calls that started, the
\* number of signAndExecuteTransaction calls, the sendMessage calls that
\* returned (in order, with the execution status), the session keys whose
\* messaging client did decrypt or send I/O and whether one of them was
\* expired at that moment, the encrypted keys the sendMessage calls read,
\* the history handed to generateResponse and the
\* reply it returned for the message at hand, the texts the transactions
\* put into the channels, and the error that ended it.
NoReply == [ kind |-> "none", id |-> 0 ]

NewCycle(cursor) ==
    [ startCursor |-> cursor, fetched |-> FALSE, queryFailed |-> FALSE,
      refreshFailed |-> FALSE, refreshFailedAt |-> 0, page |-> << >>,
      reported |-> Null, nulls |-> {},
      started |-> << >>, txs |-> 0, txStatus |-> "none", sent |-> << >>,
      ioKeys |-> {}, ioExpired |-> FALSE,
      encryptedKeys |-> << >>,
      history |-> << >>, reply |-> NoReply, posted |-> << >>,
      error |-> "none", failedAt |-> 0 ]

NoRetry == [ phase |-> "none", cursor |-> Null, batch |-> << >>, k |-> 0 ]

\* ------------------------------------------------- frontend, state shapes
\* useChannelMembership after construction: new Map() and null (the empty
\* sequence; a cached answer is the sequence of that one answer).
NoMembership ==
    [ memberCapCache |-> [ c \in Channels |-> "none" ],
      membershipsCache |-> << >> ]

\* No sendMessage call is running.
NoSend == [ channelId |-> "none", memberCapId |-> "none" ]

\* What the last sendMessage took the member cap from.
NotResolved == [ channelId |-> "none", source |-> "none", stale |-> FALSE ]

\* The state of the hooks of a view at its first render, with nothing
\* requested yet.
FirstRender(view, channelId, sessionKey) ==
    [ view |-> view,
      sessionKey |-> sessionKey,
      channelId |-> channelId,
      \* useCurrentChannel
      currentChannel |-> "none",
      messages |-> {},
      isFetchingMessages |-> FALSE,
      isSendingMessage |-> FALSE,
      hasMoreMessages |-> FALSE,
      pollingState |-> "none",
      messagesCursorRef |-> Null,
      \* useChannelList
      isFetchingChannels |-> FALSE,
      hasMoreChannels |-> FALSE,
      channelsCursorRef |-> Null,
      \* inFlightRequests.current of useChannelList and of useCurrentChannel
      inFlightRequests |-> [ list |-> {}, channel |-> {} ],
      \* useChannelMembership as called by each of the two hooks
      membership |-> [ list |-> NoMembership, channel |-> NoMembership ],
      \* Channel: the pollingState the callback of setInterval closed over
      intervalPollingState |-> "none",
      send |-> NoSend,
      \* the requests that were issued and have not settled
      network |-> EmptyBag,
      \* bookkeeping, read by the properties only
      expiredIo |-> {},      \* the requests issued with the key expired
      stale |-> {},          \* what useCurrentChannel cached before a refresh
      resolved |-> NotResolved ]

\* No view is mounted.
Unmounted == FirstRender("none", "none", "valid")

\* ------------------------------------------------------- eventIndexer.ts
\* client.queryEvents({ query, cursor, order: 'ascending' }): the page of
\* event ids after the cursor, and the id of the last event of the page.  An
\* empty page reports `emptyNext` (the node answers null or echoes the cursor).
queryEvents(cursor, emptyNext) ==
    LET last == Min(Len(stream), cursor + PageLimit)
    IN  [ data |-> [ i \in 1..(last - cursor) |-> cursor + i ],
          nextCursor |-> IF last > cursor THEN last ELSE emptyNext ]

\* The type check left out: every event of the message module passes.
isMessageModuleEvent(event) == TRUE

\* event.type.endsWith('MessageAddedEvent')
isMessageAddedEvent(event) == event.type = "MessageAddedEvent"

\* The membership check left out.
isMemberChannelAlways(channelId, members) == TRUE

\* this.botMemberChannels.has(channelId)
isMemberChannel(channelId, members) == channelId \in members

\* The own-message check left out.
isOwnMessageNever(sender) == FALSE

\* sender === this.botAddress
isOwnMessage(sender) == sender = botAddress

\* The comparison one millisecond off.
isBeforeStartOffByOne(event) == event.timestampMs < startTimestamp - 1

\* messageTimestamp < this.startTimestamp
isBeforeStart(event) == event.timestampMs < startTimestamp

\* The filter without the `continue` for messages sent before the start.
passesFilterNoStartCheck(event, members) ==
    /\ isMessageAddedEvent(event)
    /\ isMemberChannel(event.channel_id, members)
    /\ ~isOwnMessage(event.sender)

\* The four `continue`s of the loop: what reaches the decrypt.
passesFilter(event, members) ==
    /\ isMessageAddedEvent(event)
    /\ isMemberChannel(event.channel_id, members)
    /\ ~isOwnMessage(event.sender)
    /\ ~isBeforeStart(event)

\* decryptMessage: the text, or null when getLatestMessages throws or
\* returns no text.  `nulls` are the event ids whose decrypt fails.
decryptMessage(id, nulls) == IF id \in nulls THEN "null" ELSE "text"

\* A null that ends the loop (a break, or a throw caught outside the loop):
\* the events after it are not decrypted.
pushDecryptedOrStop(id, nulls, rest) ==
    IF decryptMessage(id, nulls) # "null"
    THEN << [ id |-> id, channelId |-> stream[id].channel_id,
              sender |-> stream[id].sender,
              timestamp |-> stream[id].timestampMs ] >> \o rest
    ELSE << >>

\* messages.unshift in place of messages.push: the newest comes first.
pushDecryptedInFront(id, nulls, rest) ==
    IF decryptMessage(id, nulls) # "null"
    THEN rest \o << [ id |-> id, channelId |-> stream[id].channel_id,
                      sender |-> stream[id].sender,
                      timestamp |-> stream[id].timestampMs ] >>
    ELSE rest

\* The MemberCaps the bot owns, in the order the node lists them.
ChannelOrder == << "A", "B" >>

\* The message pushed with the channel of the first MemberCap in place of
\* parsedJson.channel_id.
pushDecryptedFirstChannel(id, nulls, rest) ==
    IF decryptMessage(id, nulls) # "null"
    THEN << [ id |-> id, channelId |-> ChannelOrder[1],
              sender |-> stream[id].sender,
              timestamp |-> stream[id].timestampMs ] >> \o rest
    ELSE rest

\* `if (decryptedText) messages.push(...)`: a null is skipped, the loop goes on.
pushDecrypted(id, nulls, rest) ==
    IF decryptMessage(id, nulls) # "null"
    THEN << [ id |-> id, channelId |-> stream[id].channel_id,
              sender |-> stream[id].sender,
              timestamp |-> stream[id].timestampMs ] >> \o rest
    ELSE rest

RECURSIVE filterAndDecryptMessages(_, _, _)
filterAndDecryptMessages(events, members, nulls) ==
    IF events = << >> THEN << >>
    ELSE LET id == Head(events)
             rest == filterAndDecryptMessages(Tail(events), members, nulls)
         IN  IF passesFilter(stream[id], members)
             THEN pushDecrypted(id, nulls, rest)
             ELSE rest

\* The try branch handing on the next cursor as the node reported it.
getMessagesSinceResultAsReported(q, filtered, cursor) ==
    [ messages |-> filtered, nextCursor |-> q.nextCursor ]

\* The try branch of getMessagesSince: `nextCursor: nextCursor || cursor`.
getMessagesSinceResult(q, filtered, cursor) ==
    [ messages |-> filtered,
      nextCursor |-> IF q.nextCursor # Null THEN q.nextCursor ELSE cursor ]

\* The catch branch answering with the newest event as the next cursor.
getMessagesSinceErrorLatest(cursor) ==
    [ messages |-> << >>, nextCursor |-> Len(stream) ]

\* The catch branch of getMessagesSince.
getMessagesSinceError(cursor) ==
    [ messages |-> << >>, nextCursor |-> cursor ]

\* updateBotMemberChannels: the set is cleared and rebuilt from the owned
\* MemberCaps; an error is caught inside and leaves the set as it was.
ownedMemberCaps == SelectSeq(ChannelOrder, LAMBDA c : c \in chainMembers)

\* client.getOwnedObjects({ owner, filter, cursor }): one page of the owned
\* MemberCaps after the cursor.
getOwnedObjects(cursor) ==
    LET last == Min(Len(ownedMemberCaps), cursor + MemberCapPageSize)
    IN  [ data |-> SubSeq(ownedMemberCaps, cursor + 1, last),
          hasNextPage |-> last < Len(ownedMemberCaps),
          nextCursor |-> last ]

\* The pages a refresh reads.
MemberCapPages ==
    IF Len(ownedMemberCaps) = 0 THEN 1
    ELSE (Len(ownedMemberCaps) + MemberCapPageSize - 1) \div MemberCapPageSize

\* while (hasNextPage): the pages are collected in allMemberCaps; the call
\* for page `failAt` throws (0: none does).
RECURSIVE collectMemberCaps(_, _, _, _)
collectMemberCaps(cursor, pageNo, allMemberCaps, failAt) ==
    IF pageNo = failAt
    THEN [ ok |-> FALSE, caps |-> allMemberCaps ]
    ELSE LET response == getOwnedObjects(cursor)
             all == allMemberCaps \o response.data
         IN  IF response.hasNextPage
             THEN collectMemberCaps(response.nextCursor, pageNo + 1, all, failAt)
             ELSE [ ok |-> TRUE, caps |-> all ]

\* The refresh adding every page to the set as it arrives.
updateBotMemberChannelsEager(failAt) ==
    Range(collectMemberCaps(0, 1, << >>, failAt).caps)

\* The refresh adding the MemberCaps to the set without clearing it.
updateBotMemberChannelsMerged(failAt) ==
    LET r == collectMemberCaps(0, 1, << >>, failAt)
    IN  IF r.ok THEN botMemberChannels \cup Range(r.caps) ELSE botMemberChannels

\* updateBotMemberChannels: once every page is read the set is cleared and
\* rebuilt from the MemberCaps; an error of a page is caught inside and
\* leaves the set as it was.
updateBotMemberChannels(failAt) ==
    LET r == collectMemberCaps(0, 1, << >>, failAt)
    IN  IF r.ok THEN Range(r.caps) ELSE botMemberChannels

\* ----------------------------------------------------------------- Init
\* initializeBot has created the first session key and handed one messaging
\* client built from it to the sender and to the indexer; pollLoop is about
\* to ask for the initial cursor.
Init ==
    /\ stream = << >>
    /\ chainMembers = InitialChannels
    /\ encryptionKeyHistory = [ c \in Channels |-> 1 ]
    /\ processEnv = ValidEnv
    /\ exitCode = "none"
    /\ browser = Unmounted
    /\ isRunning = TRUE
    /\ pc = "start"
    /\ lastCursor = Null
    /\ currentSessionKey = 1
    /\ indexerClient = 1
    /\ senderClient = 1
    /\ now = 0
    /\ cachedSessionKey = 1
    /\ sessionKeyExpiry = SESSION_KEY_TTL_MINUTES - SafetyMarginMinutes
    /\ createdAt = [ k \in 1..MaxKeys |-> IF k = 1 THEN 0 ELSE Null ]
    /\ messages = << >>
    /\ nextCursor = Null
    /\ idx = 0
    /\ botMemberChannels = {}
    /\ failures = 0
    /\ replies = [ id \in 1..MaxEvents |-> 0 ]
    /\ retry = NoRetry
    /\ cycle = NewCycle(Null)

\* ------------------------------------------------------------ the world
\* A transaction of some sender appends an event to the stream.  The loop
\* reads the stream in queryEvents only, so the events that arrived since the
\* last read are appended right before the next one.
Emit ==
    /\ pc \in {"start", "fetch"}
    /\ Len(stream) < MaxEvents
    /\ \E e \in EventAlphabet : stream' = Append(stream, e)
    /\ UNCHANGED << browser, process, encryptionKeyHistory, chainMembers, isRunning,
                    pc, lastCursor, currentSessionKey, messages, nextCursor,
                    idx, botMemberChannels, indexerClient, senderClient,
                    manager, failures, replies, retry, cycle >>

\* Membership is read by updateBotMemberChannels and by
\* getMemberCapForChannel: it changes right before one of the two reads.
MembershipRead == pc \in {"fetch", "resolve"}

\* The bot is added to a channel: it now owns a MemberCap for it.
Grant ==
    /\ MembershipRead
    /\ \E c \in VolatileChannels \ chainMembers :
         chainMembers' = chainMembers \cup {c}
    /\ UNCHANGED << browser, process, encryptionKeyHistory, stream, isRunning, pc,
                    lastCursor, currentSessionKey, messages, nextCursor, idx,
                    botMemberChannels, indexerClient, senderClient, manager,
                    failures, replies, retry, cycle >>

\* The bot is removed from a channel.
Revoke ==
    /\ MembershipRead
    /\ \E c \in VolatileChannels \cap chainMembers :
         chainMembers' = chainMembers \ {c}
    /\ UNCHANGED << browser, process, encryptionKeyHistory, stream, isRunning, pc,
                    lastCursor, currentSessionKey, messages, nextCursor, idx,
                    botMemberChannels, indexerClient, senderClient, manager,
                    failures, replies, retry, cycle >>

\* shutdown(): SIGTERM or SIGINT clears the run flag.  The loop reads the
\* flag at its head only, so the signal is placed right before that read.
Shutdown ==
    /\ pc \in {"loop", "sleep"}
    /\ isRunning
    /\ isRunning' = FALSE
    /\ UNCHANGED << browser, process, encryptionKeyHistory, stream, chainMembers, pc,
                    lastCursor, currentSessionKey, messages, nextCursor, idx,
                    botMemberChannels, indexerClient, senderClient, manager,
                    failures, replies, retry, cycle >>

\* shutdown() while a cycle runs: the handler of the signal runs at an await
\* of the cycle and clears the flag; the loop reads it when the cycle is
\* over.
ShutdownInCycle ==
    /\ pc \notin {"loop", "sleep", "done", "exited"}
    /\ isRunning
    /\ isRunning' = FALSE
    /\ UNCHANGED << browser, process, encryptionKeyHistory, stream, chainMembers, pc,
                    lastCursor, currentSessionKey, messages, nextCursor, idx,
                    botMemberChannels, indexerClient, senderClient, manager,
                    failures, replies, retry, cycle >>

\* shutdown(): server.close's callback calls process.exit(0), wherever the
\* poll loop is.
ProcessExit ==
    /\ pc # "exited"
    /\ ~isRunning
    /\ pc' = "exited"
    /\ exitCode' = "0"
    /\ UNCHANGED << browser, processEnv, encryptionKeyHistory, stream, chainMembers,
                    isRunning, lastCursor, currentSessionKey, messages,
                    nextCursor, idx, botMemberChannels, indexerClient,
                    senderClient, manager, failures, replies, retry, cycle >>

\* -------------------------------------------------------------- index.ts
world == << stream, chainMembers, encryptionKeyHistory, isRunning >>
keys == << currentSessionKey, indexerClient, senderClient, manager >>
batch == << messages, nextCursor >>

CanFail == failures < MaxFailures

\* The cursor held back when a decrypt of the batch gave null.
advanceCursorHoldOnNull(next, last) ==
    IF cycle.nulls # {} THEN last
    ELSE IF next # Null THEN next ELSE last

\* nextCursor ?? lastCursor
advanceCursor(next, last) == IF next # Null THEN next ELSE last

\* The catch with the cursor assignment moved to where both paths pass (a
\* finally): the cursor advances although the batch failed.
CatchErrorAdvancing(kind, c) ==
    /\ pc' = "sleep"
    /\ cycle' = [ c EXCEPT !.error = kind, !.failedAt = idx ]
    /\ retry' = IF kind = "send"
                THEN [ phase |-> "pending", cursor |-> lastCursor,
                       batch |-> [ i \in 1..Len(messages) |-> messages[i].id ],
                       k |-> idx ]
                ELSE retry
    /\ lastCursor' = advanceCursor(nextCursor, lastCursor)

\* The catch skipping the message it failed on: the cursor is put on the
\* event of the failed message.
CatchErrorSkipFailed(kind, c) ==
    /\ pc' = "sleep"
    /\ cycle' = [ c EXCEPT !.error = kind, !.failedAt = idx ]
    /\ retry' = IF kind = "send"
                THEN [ phase |-> "pending", cursor |-> lastCursor,
                       batch |-> [ i \in 1..Len(messages) |-> messages[i].id ],
                       k |-> idx ]
                ELSE retry
    /\ lastCursor' = IF kind = "send" THEN messages[idx].id ELSE lastCursor

\* The catch of the poll loop: the error is logged, lastCursor is not
\* assigned, the loop sleeps.
CatchError(kind, c) ==
    /\ pc' = "sleep"
    /\ cycle' = [ c EXCEPT !.error = kind, !.failedAt = idx ]
    /\ retry' = IF kind = "send"
                THEN [ phase |-> "pending", cursor |-> lastCursor,
                       batch |-> [ i \in 1..Len(messages) |-> messages[i].id ],
                       k |-> idx ]
                ELSE retry
    /\ UNCHANGED lastCursor

\* let lastCursor = await indexer.getInitialCursor(): the cursor the node
\* reports for the newest event, or null (also the result of the catch).
getInitialCursor ==
    /\ pc = "start"
    /\ \E c \in {Null, Len(stream)} : lastCursor' = c
    /\ pc' = "loop"
    /\ UNCHANGED << browser, process, world, keys, batch, idx, botMemberChannels,
                    failures, replies, retry, cycle >>

\* The head of the loop, reached from getInitialCursor and from the sleep
\* that ends a cycle (in the try and in the catch): nothing runs between
\* the end of the sleep and the test of the flag.
AtLoopHead == pc \in {"loop", "sleep"}

\* The body of the loop started by a timer (setInterval) whatever the
\* iteration before it is doing.
LoopEnterOnTimer ==
    /\ pc \notin {"start", "renew", "done", "exited"}
    /\ isRunning
    /\ pc' = "renew"
    /\ messages' = << >>
    /\ nextCursor' = Null
    /\ idx' = 0
    /\ cycle' = NewCycle(lastCursor)
    /\ retry' = IF retry.phase = "refetched" THEN NoRetry ELSE retry
    /\ UNCHANGED << browser, process, world, keys, lastCursor, botMemberChannels,
                    failures, replies >>

\* while (isRunning) { try { ...
LoopEnter ==
    /\ AtLoopHead
    /\ isRunning
    /\ pc' = "renew"
    /\ messages' = << >>
    /\ nextCursor' = Null
    /\ idx' = 0
    /\ cycle' = NewCycle(lastCursor)
    /\ retry' = IF retry.phase = "refetched" THEN NoRetry ELSE retry
    /\ UNCHANGED << browser, process, world, keys, lastCursor, botMemberChannels,
                    failures, replies >>

\* while (isRunning) is false: pollLoop returns.
LoopExit ==
    /\ AtLoopHead
    /\ ~isRunning
    /\ pc' = "done"
    /\ UNCHANGED << browser, process, world, keys, batch, idx, lastCursor,
                    botMemberChannels, failures, replies, retry, cycle >>

\* ---------------------------------------------------------- sessionKey.ts
\* SessionKey.isExpired() of the key library: the TTL counted from the
\* creation of the key has elapsed.
isExpired(key) == now >= createdAt[key] + SESSION_KEY_TTL_MINUTES

\* The cache test taking the key's own expiry only.
cacheValidUntilTtl ==
    /\ cachedSessionKey # Null
    /\ ~isExpired(cachedSessionKey)

\* cachedSessionKey && sessionKeyExpiry && Date.now() < sessionKeyExpiry,
\* and !cachedSessionKey.isExpired()
cacheValid ==
    /\ cachedSessionKey # Null
    /\ sessionKeyExpiry # Null
    /\ now < sessionKeyExpiry
    /\ ~isExpired(cachedSessionKey)

\* getOrCreateSessionKey: the cached key, or a new key that is cached with
\* the expiry Date.now() + (SESSION_KEY_TTL_MINUTES - 1) minutes.  Keys are
\* numbered in the order of their creation.
getOrCreateSessionKey ==
    IF cacheValid
    THEN [ sessionKey |-> cachedSessionKey, expiry |-> sessionKeyExpiry,
           createdAt |-> createdAt ]
    ELSE [ sessionKey |-> cachedSessionKey + 1,
           expiry |-> now + (SESSION_KEY_TTL_MINUTES - SafetyMarginMinutes),
           createdAt |-> [ createdAt EXCEPT ![cachedSessionKey + 1] = now ] ]

\* The call creates no key beyond the keys that are followed.
CanIssue == cacheValid \/ cachedSessionKey < MaxKeys

\* The instants at which an answer of the clock changes: the cached expiry
\* and the expiry of the keys in use.
Instants ==
    { sessionKeyExpiry,
      createdAt[currentSessionKey] + SESSION_KEY_TTL_MINUTES,
      createdAt[cachedSessionKey] + SESSION_KEY_TTL_MINUTES }

\* Time passes: while the loop sleeps any time, and between the check of the
\* key and the I/O of the cycle no more than the safety margin.  The last
\* key that is followed does not age.
Tick ==
    /\ cachedSessionKey < MaxKeys
    /\ \E t \in Instants :
         /\ t > now
         /\ \/ AtLoopHead
            \/ pc = "fetch" /\ t - now <= SafetyMarginMinutes
         /\ now' = t
    /\ UNCHANGED << browser, process, encryptionKeyHistory, stream, chainMembers,
                    isRunning, pc, lastCursor, currentSessionKey, messages,
                    nextCursor, idx, botMemberChannels, indexerClient,
                    senderClient, cachedSessionKey, sessionKeyExpiry,
                    createdAt, failures, replies, retry, cycle >>

\* The renewal handing the new client to the indexer only.
RenewExpiredIndexerOnly ==
    /\ pc = "renew"
    /\ isExpired(currentSessionKey)
    /\ CanIssue
    /\ LET r == getOrCreateSessionKey
       IN  /\ cachedSessionKey' = r.sessionKey
           /\ sessionKeyExpiry' = r.expiry
           /\ createdAt' = r.createdAt
           /\ indexerClient' = r.sessionKey
           /\ currentSessionKey' = r.sessionKey
    /\ pc' = "fetch"
    /\ UNCHANGED << browser, process, world, now, senderClient, batch, idx, lastCursor,
                    botMemberChannels, failures, replies, retry, cycle >>

\* createMessagingClient throwing after the indexer was handed a client
\* for the new key.
RenewClientFailsHalfway ==
    /\ pc = "renew"
    /\ isExpired(currentSessionKey)
    /\ CanIssue
    /\ CanFail
    /\ failures' = failures + 1
    /\ LET r == getOrCreateSessionKey
       IN  /\ cachedSessionKey' = r.sessionKey
           /\ sessionKeyExpiry' = r.expiry
           /\ createdAt' = r.createdAt
           /\ indexerClient' = r.sessionKey
    /\ CatchError("renew", cycle)
    /\ UNCHANGED << browser, process, world, now, currentSessionKey, senderClient,
                    batch, idx, botMemberChannels, replies >>

\* ------------------------------------------- index.ts, the key renewal
\* checkAndRenewSessionKey asking getOrCreateSessionKey in every cycle and
\* installing what it returns.
RenewNotExpiredAsksCache ==
    /\ pc = "renew"
    /\ ~isExpired(currentSessionKey)
    /\ CanIssue
    /\ LET r == getOrCreateSessionKey
       IN  /\ cachedSessionKey' = r.sessionKey
           /\ sessionKeyExpiry' = r.expiry
           /\ createdAt' = r.createdAt
           /\ indexerClient' = r.sessionKey
           /\ senderClient' = r.sessionKey
           /\ currentSessionKey' = r.sessionKey
    /\ pc' = "fetch"
    /\ UNCHANGED << browser, process, world, now, batch, idx, lastCursor,
                    botMemberChannels, failures, replies, retry, cycle >>

\* checkAndRenewSessionKey, currentSessionKey.isExpired() false: nothing is
\* renewed.
RenewNotExpired ==
    /\ pc = "renew"
    /\ ~isExpired(currentSessionKey)
    /\ pc' = "fetch"
    /\ UNCHANGED << browser, process, world, keys, batch, idx, lastCursor,
                    botMemberChannels, failures, replies, retry, cycle >>

\* checkAndRenewSessionKey, currentSessionKey.isExpired() true: the key of
\* getOrCreateSessionKey, a messaging client built from it handed to the
\* indexer and to the sender, and the assignment of currentSessionKey.
RenewExpired ==
    /\ pc = "renew"
    /\ isExpired(currentSessionKey)
    /\ CanIssue
    /\ LET r == getOrCreateSessionKey
       IN  /\ cachedSessionKey' = r.sessionKey
           /\ sessionKeyExpiry' = r.expiry
           /\ createdAt' = r.createdAt
           /\ indexerClient' = r.sessionKey
           /\ senderClient' = r.sessionKey
           /\ currentSessionKey' = r.sessionKey
    /\ pc' = "fetch"
    /\ UNCHANGED << browser, process, world, now, batch, idx, lastCursor,
                    botMemberChannels, failures, replies, retry, cycle >>

\* createMessagingClient(newSessionKey) throws after getOrCreateSessionKey
\* has cached the key: the indexer, the sender and currentSessionKey keep
\* the previous key and the error reaches the catch of the loop.
RenewClientFails ==
    /\ pc = "renew"
    /\ isExpired(currentSessionKey)
    /\ CanIssue
    /\ CanFail
    /\ failures' = failures + 1
    /\ LET r == getOrCreateSessionKey
       IN  /\ cachedSessionKey' = r.sessionKey
           /\ sessionKeyExpiry' = r.expiry
           /\ createdAt' = r.createdAt
    /\ CatchError("renew", cycle)
    /\ UNCHANGED << browser, process, world, now, currentSessionKey, indexerClient,
                    senderClient, batch, idx, botMemberChannels, replies >>

\* getOrCreateSessionKey throws (createBotSessionKey fails), or
\* createMessagingClient throws for the key in use: nothing is cached and
\* the error reaches the catch of the loop.
RenewFails ==
    /\ pc = "renew"
    /\ CanFail
    /\ failures' = failures + 1
    /\ CatchError("renew", cycle)
    /\ UNCHANGED << browser, process, world, keys, batch, idx, botMemberChannels,
                    replies >>

\* const { messages, nextCursor } = await indexer.getMessagesSince(lastCursor):
\* the membership refresh, the event query, the filter and the decrypts.
getMessagesSince ==
    /\ pc = "fetch"
    /\ \E failAt \in 0..MemberCapPages, queryOk \in BOOLEAN,
          emptyNext \in {Null, lastCursor} :
         LET members == updateBotMemberChannels(failAt)
             refreshOk == failAt = 0
             q == queryEvents(lastCursor, emptyNext)
             ids == Range(q.data)
             reach == { id \in ids : passesFilter(stream[id], members) }
         IN  \E nulls \in SUBSET reach :
               LET cost == (IF refreshOk THEN 0 ELSE 1)
                           + (IF queryOk THEN 0 ELSE 1) + Cardinality(nulls)
                   r == IF queryOk
                        THEN getMessagesSinceResult(q,
                               filterAndDecryptMessages(q.data, members, nulls),
                               lastCursor)
                        ELSE getMessagesSinceError(lastCursor)
               IN  /\ queryOk \/ nulls = {}
                   /\ failures + cost <= MaxFailures
                   /\ failures' = failures + cost
                   /\ botMemberChannels' = members
                   /\ messages' = r.messages
                   /\ nextCursor' = r.nextCursor
                   /\ idx' = 1
                   /\ pc' = IF Len(r.messages) > 0 THEN "generate" ELSE "advance"
                   /\ cycle' = [ cycle EXCEPT !.fetched = TRUE,
                                              !.queryFailed = ~queryOk,
                                              !.refreshFailed = ~refreshOk,
                                              !.refreshFailedAt = failAt,
                                              !.page = IF queryOk THEN q.data
                                                       ELSE << >>,
                                              !.reported = IF queryOk
                                                           THEN q.nextCursor
                                                           ELSE Null,
                                              !.nulls = nulls,
                                              !.ioKeys = IF queryOk /\ reach # {}
                                                         THEN @ \cup {indexerClient}
                                                         ELSE @,
                                              !.ioExpired = \/ @
                                                            \/ /\ queryOk
                                                               /\ reach # {}
                                                               /\ isExpired(indexerClient) ]
                   /\ retry' = IF queryOk /\ retry.phase = "pending"
                               THEN [ retry EXCEPT !.phase = "refetched" ]
                               ELSE retry
    /\ UNCHANGED << browser, process, world, keys, lastCursor, replies >>

\* ---------------------------------------------------------- llmService.ts
\* completion.choices[0].message.content, trimmed: the text the model wrote
\* in answer to the message of the event `id`.
chatCompletion(id) == [ kind |-> "completion", id |-> id ]

\* const reply = await aiService.generateResponse(msg.text, []): the
\* conversation history handed over is the empty array.
generateResponse ==
    /\ pc = "generate"
    /\ pc' = "resolve"
    /\ cycle' = [ cycle EXCEPT !.history = << >>,
                               !.reply = chatCompletion(messages[idx].id) ]
    /\ UNCHANGED << browser, process, world, keys, batch, idx, lastCursor,
                    botMemberChannels, failures, replies, retry >>

\* The error of generateResponse turned into a reply: the loop goes on to
\* send a text that tells of the error.
generateResponseThrowsApology ==
    /\ pc = "generate"
    /\ CanFail
    /\ failures' = failures + 1
    /\ pc' = "resolve"
    /\ cycle' = [ cycle EXCEPT !.history = << >>,
                               !.reply = [ kind |-> "error",
                                           id |-> messages[idx].id ] ]
    /\ UNCHANGED << browser, process, world, keys, batch, idx, lastCursor,
                    botMemberChannels, replies, retry >>

\* generateResponse throws (an API error, no content in the completion).
generateResponseThrows ==
    /\ pc = "generate"
    /\ CanFail
    /\ failures' = failures + 1
    /\ CatchError("generate", cycle)
    /\ UNCHANGED << browser, process, world, keys, batch, idx, botMemberChannels,
                    replies >>

\* ------------------------------------------------------- messageSender.ts
\* A sendMessage call starts: its lookups go through the messaging client
\* of the sender.
Started(c, id) ==
    [ c EXCEPT !.started = Append(@, id),
               !.ioKeys = @ \cup {senderClient},
               !.ioExpired = @ \/ isExpired(senderClient) ]

\* sendMessage going on to build and submit without a member cap.
sendMessageResolveUnchecked ==
    /\ pc = "resolve"
    /\ pc' = "submit"
    /\ cycle' = [ cycle EXCEPT !.started = Append(@, messages[idx].id) ]
    /\ UNCHANGED << browser, process, world, keys, batch, idx, lastCursor,
                    botMemberChannels, failures, replies, retry >>

\* The channel object getChannelObjectsByChannelIds returns: the bytes of
\* the newest encryption key of the channel and its version.
channelObject(channelId) ==
    [ encryption_key_history |->
        [ latest |-> << channelId, encryptionKeyHistory[channelId] >>,
          latest_version |-> encryptionKeyHistory[channelId] ] ]

\* getEncryptedKeyForChannel: a copy of encryption_key_history.latest with
\* latest_version, read from the channel object at the time of the call.
getEncryptedKeyForChannel(channelId) ==
    LET channel == channelObject(channelId)
    IN  [ kind |-> "Encrypted",
          encryptedBytes |-> channel.encryption_key_history.latest,
          version |-> channel.encryption_key_history.latest_version ]

\* The encryption key of a channel is rotated: the channel object holds a
\* new latest key.  The sender reads it in getEncryptedKeyForChannel only, so
\* the rotation is placed right before that read.
RotateKey ==
    /\ pc = "resolve"
    /\ \E c \in Channels :
         /\ encryptionKeyHistory[c] < MaxKeyVersion
         /\ encryptionKeyHistory' = [ encryptionKeyHistory EXCEPT ![c] = @ + 1 ]
    /\ UNCHANGED << browser, process, stream, chainMembers, isRunning, pc, lastCursor,
                    currentSessionKey, messages, nextCursor, idx,
                    botMemberChannels, indexerClient, senderClient, manager,
                    failures, replies, retry, cycle >>

\* sendMessage keeping the encrypted key of a channel from one call to the
\* next.
sendMessageResolveCachedKey ==
    /\ pc = "resolve"
    /\ messages[idx].channelId \in chainMembers
    /\ pc' = "submit"
    /\ LET cached == SelectSeq(cycle.encryptedKeys,
                               LAMBDA k : k.encryptedBytes[1] = messages[idx].channelId)
       IN  cycle' = [ Started(cycle, messages[idx].id) EXCEPT
                        !.encryptedKeys = Append(@,
                           IF cached # << >> THEN cached[1]
                           ELSE getEncryptedKeyForChannel(messages[idx].channelId)) ]
    /\ UNCHANGED << browser, process, world, keys, batch, idx, lastCursor,
                    botMemberChannels, failures, replies, retry >>

\* sendMessage, steps 1 to 5: the member cap and the encrypted key of the
\* channel are found and the transaction is built.
sendMessageResolve ==
    /\ pc = "resolve"
    /\ messages[idx].channelId \in chainMembers
    /\ pc' = "submit"
    /\ cycle' = [ Started(cycle, messages[idx].id) EXCEPT
                    !.encryptedKeys = Append(@,
                       getEncryptedKeyForChannel(messages[idx].channelId)) ]
    /\ UNCHANGED << browser, process, world, keys, batch, idx, lastCursor,
                    botMemberChannels, failures, replies, retry >>

\* sendMessage returning without a throw when no member cap is found: the
\* for loop takes the next message.
sendMessageNoMemberCapSkipped ==
    /\ pc = "resolve"
    /\ messages[idx].channelId \notin chainMembers
    /\ cycle' = Started(cycle, messages[idx].id)
    /\ idx' = idx + 1
    /\ pc' = IF idx < Len(messages) THEN "generate" ELSE "advance"
    /\ UNCHANGED << browser, process, world, keys, batch, lastCursor,
                    botMemberChannels, failures, replies, retry >>

\* getMemberCapForChannel finds no membership for the channel: sendMessage
\* throws `No member cap found`.
sendMessageNoMemberCap ==
    /\ pc = "resolve"
    /\ messages[idx].channelId \notin chainMembers
    /\ CatchError("send", Started(cycle, messages[idx].id))
    /\ UNCHANGED << browser, process, world, keys, batch, idx, botMemberChannels,
                    failures, replies >>

\* A lookup fails (getMemberCapForChannel or getEncryptedKeyForChannel
\* catches and returns null) or building the transaction throws.
sendMessageResolveFails ==
    /\ pc = "resolve"
    /\ CanFail
    /\ failures' = failures + 1
    /\ CatchError("send", Started(cycle, messages[idx].id))
    /\ UNCHANGED << browser, process, world, keys, batch, idx, botMemberChannels,
                    replies >>

\* keypair.signAndExecuteTransaction resolves and the transaction executed
\* with success: the reply is in the channel.
signAndExecuteTransaction ==
    /\ pc = "submit"
    /\ replies' = [ replies EXCEPT ![messages[idx].id] = Min(@ + 1, MaxReplies) ]
    /\ cycle' = [ cycle EXCEPT !.txStatus = "success", !.txs = @ + 1,
                               !.posted = Append(@,
                                  [ channelId |-> messages[idx].channelId,
                                    text |-> cycle.reply ]) ]
    /\ pc' = "wait"
    /\ UNCHANGED << browser, process, world, keys, batch, idx, lastCursor,
                    botMemberChannels, failures, retry >>

\* signAndExecuteTransaction resolves with a transaction whose execution
\* status is failure: nothing is appended to the channel, and sendMessage
\* does not read the status.
signAndExecuteTransactionAborted ==
    /\ pc = "submit"
    /\ CanFail
    /\ failures' = failures + 1
    /\ cycle' = [ cycle EXCEPT !.txStatus = "failure", !.txs = @ + 1 ]
    /\ pc' = "wait"
    /\ UNCHANGED << browser, process, world, keys, batch, idx, lastCursor,
                    botMemberChannels, replies, retry >>

\* signAndExecuteTransaction throws and sendMessage calls it again.
signAndExecuteTransactionThrowsRetried ==
    /\ pc = "submit"
    /\ CanFail
    /\ failures' = failures + 1
    /\ cycle' = [ cycle EXCEPT !.txs = @ + 1 ]
    /\ UNCHANGED << browser, process, world, keys, batch, idx, pc, lastCursor,
                    botMemberChannels, replies, retry >>

\* signAndExecuteTransaction throws (the node rejects or is unreachable).
signAndExecuteTransactionThrows ==
    /\ pc = "submit"
    /\ CanFail
    /\ failures' = failures + 1
    /\ CatchError("send", [ cycle EXCEPT !.txs = @ + 1 ])
    /\ UNCHANGED << browser, process, world, keys, batch, idx, botMemberChannels,
                    replies >>

\* waitForTransaction resolves: sendMessage returns and the for loop takes
\* the next message.
waitForTransaction ==
    /\ pc = "wait"
    /\ cycle' = [ cycle EXCEPT !.sent = Append(@,
                     [ id |-> messages[idx].id,
                       channelId |-> messages[idx].channelId,
                       status |-> cycle.txStatus ]),
                   !.txStatus = "none" ]
    /\ idx' = idx + 1
    /\ pc' = IF idx < Len(messages) THEN "generate" ELSE "advance"
    /\ UNCHANGED << browser, process, world, keys, batch, lastCursor,
                    botMemberChannels, failures, replies, retry >>

\* waitForTransaction throws: sendMessage rethrows.
waitForTransactionThrows ==
    /\ pc = "wait"
    /\ CanFail
    /\ failures' = failures + 1
    /\ CatchError("send", cycle)
    /\ UNCHANGED << browser, process, world, keys, batch, idx, botMemberChannels,
                    replies >>

\* ------------------------------------------------- index.ts, end of cycle
\* lastCursor = nextCursor ?? lastCursor, after the for loop
AdvanceCursor ==
    /\ pc = "advance"
    /\ lastCursor' = advanceCursor(nextCursor, lastCursor)
    /\ pc' = "sleep"
    /\ UNCHANGED << browser, process, world, keys, batch, idx, botMemberChannels,
                    failures, replies, retry, cycle >>

Cycle ==
    \/ LoopEnter
    \/ RenewNotExpired
    \/ RenewFails
    \/ getMessagesSince
    \/ generateResponse
    \/ generateResponseThrows
    \/ sendMessageResolve
    \/ sendMessageNoMemberCap
    \/ sendMessageResolveFails
    \/ signAndExecuteTransaction
    \/ signAndExecuteTransactionAborted
    \/ signAndExecuteTransactionThrows
    \/ waitForTransaction
    \/ waitForTransactionThrows
    \/ AdvanceCursor

\* The steps of checkAndRenewSessionKey that need an expired key.
Renewal == RenewExpired \/ RenewClientFails

Poll == getInitialCursor \/ Cycle

World == Emit \/ Grant \/ Revoke

Next == Poll \/ LoopExit \/ World \/ Shutdown

\* The loop during the life of its first session key.
Spec == Init /\ [][Next]_vars

\* With the exit of the process that shutdown() schedules.
StopNext == Next \/ ShutdownInCycle \/ ProcessExit

StopSpec == Init /\ [][StopNext]_vars

\* The loop keeps being scheduled and is never told to stop.
FairNext == Poll \/ World

FairSpec == Init /\ [][FairNext]_vars /\ WF_vars(Poll)

\* The scenario of three events for the channels A, B, A, all messages of a
\* user stamped after the start, that arrived after the initial cursor C0 was
\* taken; a further event may follow them.  The bot is a member of A.
UserMessage(channelId) ==
    [ type |-> "MessageAddedEvent", channel_id |-> channelId,
      sender |-> "user", timestampMs |-> startTimestamp ]

ScenarioEvents == << UserMessage("A"), UserMessage("B"), UserMessage("A") >>

ScenarioInit ==
    /\ \E before \in { << >>, << UserMessage("A") >> },
          after \in { << >>, << UserMessage("A") >> } :
         /\ stream = before \o ScenarioEvents \o after
         /\ lastCursor = Len(before)
         /\ replies = [ id \in 1..(Len(ScenarioEvents) + 2) |-> 0 ]
    /\ chainMembers = InitialChannels
    /\ encryptionKeyHistory = [ c \in Channels |-> 1 ]
    /\ processEnv = ValidEnv
    /\ exitCode = "none"
    /\ browser = Unmounted
    /\ isRunning = TRUE
    /\ pc = "loop"
    /\ currentSessionKey = 1
    /\ indexerClient = 1
    /\ senderClient = 1
    /\ now = 0
    /\ cachedSessionKey = 1
    /\ sessionKeyExpiry = SESSION_KEY_TTL_MINUTES - SafetyMarginMinutes
    /\ createdAt = [ k \in 1..MaxKeys |-> IF k = 1 THEN 0 ELSE Null ]
    /\ messages = << >>
    /\ nextCursor = Null
    /\ idx = 0
    /\ botMemberChannels = {}
    /\ failures = 0
    /\ retry = NoRetry
    /\ cycle = NewCycle(Len(stream) - Len(ScenarioEvents))

ScenarioNext == Cycle \/ LoopExit \/ Grant \/ Revoke \/ Shutdown

ScenarioSpec == ScenarioInit /\ [][ScenarioNext]_vars

\* The loop over the same events with the clock: the keys age, expire and
\* are renewed.
RenewalNext == ScenarioNext \/ Renewal \/ Tick

RenewalSpec == ScenarioInit /\ [][RenewalNext]_vars

\* The loop over the same events while the encryption keys of the channels
\* are rotated.
RotationNext == ScenarioNext \/ RotateKey

RotationSpec == ScenarioInit /\ [][RotationNext]_vars

\* getOrCreateSessionKey on its own: initializeBot is about to make the
\* first call, the cache is empty; the function is called again and again
\* while the clock advances minute by minute.
SessionKeyInit ==
    /\ stream = << >>
    /\ chainMembers = InitialChannels
    /\ encryptionKeyHistory = [ c \in Channels |-> 1 ]
    /\ processEnv = ValidEnv
    /\ exitCode = "none"
    /\ browser = Unmounted
    /\ isRunning = TRUE
    /\ pc = "init"
    /\ lastCursor = Null
    /\ currentSessionKey = Null
    /\ indexerClient = Null
    /\ senderClient = Null
    /\ now = 0
    /\ cachedSessionKey = Null
    /\ sessionKeyExpiry = Null
    /\ createdAt = [ k \in 1..MaxKeys |-> Null ]
    /\ messages = << >>
    /\ nextCursor = Null
    /\ idx = 0
    /\ botMemberChannels = {}
    /\ failures = 0
    /\ replies = [ id \in 1..MaxEvents |-> 0 ]
    /\ retry = NoRetry
    /\ cycle = NewCycle(Null)

\* const sessionKey = await getOrCreateSessionKey(suiClient, keypair,
\* botAddress): the key returned is held in currentSessionKey.
CallGetOrCreateSessionKey ==
    /\ pc = "init"
    /\ CanIssue
    /\ LET r == getOrCreateSessionKey
       IN  /\ cachedSessionKey' = r.sessionKey
           /\ sessionKeyExpiry' = r.expiry
           /\ createdAt' = r.createdAt
           /\ currentSessionKey' = r.sessionKey
    /\ pc' = "called"
    /\ UNCHANGED << browser, process, world, now, indexerClient, senderClient, batch,
                    idx, lastCursor, botMemberChannels, failures, replies,
                    retry, cycle >>

\* createBotSessionKey caching the key it created before the signature
\* fails.
CallGetOrCreateSessionKeyThrowsCached ==
    /\ pc = "init"
    /\ ~cacheValid
    /\ cachedSessionKey < MaxKeys
    /\ CanFail
    /\ failures' = failures + 1
    /\ cachedSessionKey' = cachedSessionKey + 1
    /\ sessionKeyExpiry' = now + (SESSION_KEY_TTL_MINUTES - SafetyMarginMinutes)
    /\ createdAt' = [ createdAt EXCEPT ![cachedSessionKey + 1] = now ]
    /\ pc' = "threw"
    /\ UNCHANGED << browser, process, world, now, currentSessionKey, indexerClient,
                    senderClient, batch, idx, lastCursor, botMemberChannels,
                    replies, retry, cycle >>

\* The cache is not valid and createBotSessionKey throws (SessionKey.create
\* or the signature fails): getOrCreateSessionKey throws before the two
\* assignments to the cache, the caller is handed nothing.
CallGetOrCreateSessionKeyThrows ==
    /\ pc = "init"
    /\ ~cacheValid
    /\ CanFail
    /\ failures' = failures + 1
    /\ pc' = "threw"
    /\ UNCHANGED << browser, process, world, keys, batch, idx, lastCursor,
                    botMemberChannels, replies, retry, cycle >>

\* Before the next call no time or a minute passes.
Elapse ==
    /\ pc \in {"init", "called", "threw"}
    /\ \E d \in {0, 1} :
         /\ now + d <= MaxNow
         /\ now' = now + d
    /\ pc' = "init"
    /\ UNCHANGED << browser, process, world, currentSessionKey, indexerClient,
                    senderClient, cachedSessionKey, sessionKeyExpiry,
                    createdAt, batch, idx, lastCursor, botMemberChannels,
                    failures, replies, retry, cycle >>

SessionKeyNext ==
    \/ CallGetOrCreateSessionKey
    \/ CallGetOrCreateSessionKeyThrows
    \/ Elapse

SessionKeySpec == SessionKeyInit /\ [][SessionKeyNext]_vars

\* ------------------------------------------ index.ts, the start of the bot
\* What process.env can hold for the two keys config.ts requires: the
\* private key absent, set to something Ed25519Keypair.fromSecretKey
\* rejects, or usable; the API key absent or set.
Environments ==
    [ BOT_PRIVATE_KEY : {"missing", "invalid", "valid"},
      OPENAI_API_KEY : {"missing", "set"} ]

\* The process is started: nothing is loaded yet.
StartupInit ==
    /\ processEnv \in Environments
    /\ exitCode = "none"
    /\ browser = Unmounted
    /\ pc = "import"
    /\ stream = << >>
    /\ chainMembers = InitialChannels
    /\ encryptionKeyHistory = [ c \in Channels |-> 1 ]
    /\ isRunning = TRUE
    /\ lastCursor = Null
    /\ currentSessionKey = Null
    /\ indexerClient = Null
    /\ senderClient = Null
    /\ now = 0
    /\ cachedSessionKey = Null
    /\ sessionKeyExpiry = Null
    /\ createdAt = [ k \in 1..MaxKeys |-> Null ]
    /\ messages = << >>
    /\ nextCursor = Null
    /\ idx = 0
    /\ botMemberChannels = {}
    /\ failures = 0
    /\ replies = [ id \in 1..MaxEvents |-> 0 ]
    /\ retry = NoRetry
    /\ cycle = NewCycle(Null)

\* process.exit(1) in the catch of initializeBot; an error thrown while the
\* modules are loaded ends the process with the same code.
exitWithFailure ==
    /\ pc' = "exited"
    /\ exitCode' = "1"

\* import './config.js': the module throws when BOT_PRIVATE_KEY or
\* OPENAI_API_KEY is not set.
importConfig ==
    /\ pc = "import"
    /\ IF \/ processEnv.BOT_PRIVATE_KEY = "missing"
          \/ processEnv.OPENAI_API_KEY = "missing"
       THEN exitWithFailure
       ELSE pc' = "keypair" /\ UNCHANGED exitCode
    /\ UNCHANGED << browser, processEnv, world, keys, batch, idx, lastCursor,
                    botMemberChannels, failures, replies, retry, cycle >>

\* A key that cannot be parsed replaced by a generated keypair.
createBotKeypairGenerated ==
    /\ pc = "keypair"
    /\ pc' = "init"
    /\ UNCHANGED << browser, process, world, keys, batch, idx, lastCursor,
                    botMemberChannels, failures, replies, retry, cycle >>

\* const keypair = createBotKeypair(): Ed25519Keypair.fromSecretKey throws
\* for a key it cannot parse and initializeBot exits.
createBotKeypair ==
    /\ pc = "keypair"
    /\ IF processEnv.BOT_PRIVATE_KEY # "valid"
       THEN exitWithFailure
       ELSE pc' = "init" /\ UNCHANGED exitCode
    /\ UNCHANGED << browser, processEnv, world, keys, batch, idx, lastCursor,
                    botMemberChannels, failures, replies, retry, cycle >>

\* getOrCreateSessionKey throws for the first key (createBotSessionKey
\* fails): nothing is cached and initializeBot exits.
createBotSessionKeyThrows ==
    /\ pc = "init"
    /\ ~cacheValid
    /\ exitWithFailure
    /\ UNCHANGED << browser, processEnv, world, keys, batch, idx, lastCursor,
                    botMemberChannels, failures, replies, retry, cycle >>

\* createMessagingClient(sessionKey), new LLMService(), new MessageSender
\* and new MessageIndexer: the sender and the indexer hold the client of the
\* first key and pollLoop is called.
initializeComponents ==
    /\ pc = "called"
    /\ IF processEnv.OPENAI_API_KEY = "missing"
       THEN /\ exitWithFailure
            /\ UNCHANGED << indexerClient, senderClient >>
       ELSE /\ indexerClient' = currentSessionKey
            /\ senderClient' = currentSessionKey
            /\ pc' = "start"
            /\ UNCHANGED exitCode
    /\ UNCHANGED << browser, processEnv, world, currentSessionKey, manager, batch, idx,
                    lastCursor, botMemberChannels, failures, replies, retry,
                    cycle >>

\* createMessagingClient throws for the first key: initializeBot exits.
createMessagingClientThrows ==
    /\ pc = "called"
    /\ exitWithFailure
    /\ UNCHANGED << browser, processEnv, world, keys, batch, idx, lastCursor,
                    botMemberChannels, failures, replies, retry, cycle >>

Startup ==
    \/ importConfig
    \/ createBotKeypair
    \/ CallGetOrCreateSessionKey
    \/ createBotSessionKeyThrows
    \/ initializeComponents
    \/ createMessagingClientThrows

\* The process from its start: the modules load, initializeBot runs and
\* calls the poll loop.
StartupNext == Startup \/ Next

StartupSpec == StartupInit /\ [][StartupNext]_vars

\* ------------------------------------------------ frontend, the two hooks
\* currentAccount.address of the signed-in user.
userAddress == "user"

\* What getChannelMemberships answers: the user is a member of the channels
\* the views show.
userMemberships == Channels

\* member_cap_id of the membership of a channel.
memberCapOf(channelId) == << "cap", channelId >>

\* A request handed to the messaging client, the sponsor or the node: the
\* hook that made it, the call, the channel (or address) it is about, the
\* cursor sent, the loadMore flag of the caller and whether a running
\* sendMessage awaits it.
Request(hook, kind, id, cursor, loadMore, awaited) ==
    [ hook |-> hook, kind |-> kind, id |-> id, cursor |-> cursor,
      loadMore |-> loadMore, awaited |-> awaited ]

\* `fetchChannels-${address}-${cursor ?? 'initial'}`,
\* `fetchMessages-${channelId}-${cursor ?? 'initial'}` and
\* `fetchLatestMessages-${channelId}`
requestKey(r) ==
    IF r.kind = "fetchLatestMessages"
    THEN << r.kind, r.id >>
    ELSE << r.kind, r.id,
            IF r.cursor = Null THEN "initial" ELSE ToString(r.cursor) >>

\* The call leaves the browser: it is in flight until it settles.
issue(b, r) ==
    [ b EXCEPT !.network = @ (+) SetToBag({r}),
               !.expiredIo = IF b.sessionKey = "expired"
                             THEN @ \cup {r.kind} ELSE @ ]

\* The promise of the request resolves or rejects.
settled(b, r) == [ b EXCEPT !.network = @ (-) SetToBag({r}) ]

\* inFlightRequests.current.delete(requestKey)
release(b, r) ==
    [ b EXCEPT !.inFlightRequests[r.hook] = @ \ {requestKey(r)} ]

\* What a useChannelMembership holds: the channels with a cached member cap
\* and the cached membership list.
Cached(m) ==
    { c \in Channels : m.memberCapCache[c] # "none" }
      \cup (IF m.membershipsCache # << >> THEN {"memberships"} ELSE {})

\* clearCache of the useChannelMembership the hook called.
clearCache(b, hook) == [ b EXCEPT !.membership[hook] = NoMembership ]

\* useChannelList.fetchChannels(loadMore), up to the await.
fetchChannels(b, loadMore) ==
    LET cursor == IF loadMore THEN b.channelsCursorRef ELSE Null
        r == Request("list", "fetchChannels", userAddress, cursor, loadMore,
                     FALSE)
    IN  IF requestKey(r) \in b.inFlightRequests.list
        THEN b
        ELSE issue([ b EXCEPT !.inFlightRequests.list = @ \cup {requestKey(r)},
                              !.isFetchingChannels = TRUE ], r)

\* fetchChannels after the await, the try branch: the refresh clears the
\* cache of the useChannelMembership that useChannelList called.
fetchChannelsResponse(b, r, cursor, hasNextPage) ==
    LET cleared == IF r.loadMore THEN b ELSE clearCache(b, "list")
    IN  [ cleared EXCEPT
            !.channelsCursorRef = cursor,
            !.hasMoreChannels = hasNextPage,
            !.stale = IF r.loadMore THEN @
                      ELSE Cached(cleared.membership.channel) ]

\* fetchChannels, the finally branch.
fetchChannelsFinally(b, r) ==
    release([ b EXCEPT !.isFetchingChannels = FALSE ], r)

\* useCurrentChannel.getChannelById(channelId), up to the await.
getChannelById(b, channelId) ==
    issue([ b EXCEPT !.pollingState = "none",
                     !.messagesCursorRef = Null ],
          Request("channel", "getChannelById", channelId, Null, FALSE, FALSE))

\* fetchMessages issuing its request whether or not one is in flight.
fetchMessagesUnguarded(b, channel, loadMore, awaited) ==
    IF channel = "none"
    THEN b
    ELSE LET cursor == IF loadMore THEN b.messagesCursorRef ELSE Null
             r == Request("channel", "fetchMessages", channel, cursor,
                          loadMore, awaited)
         IN  issue([ b EXCEPT
                       !.inFlightRequests.channel = @ \cup {requestKey(r)},
                       !.isFetchingMessages = TRUE ], r)

\* useCurrentChannel.fetchMessages(loadMore), up to the await; `channel` is
\* the currentChannel of the render the callback was made in.
fetchMessages(b, channel, loadMore, awaited) ==
    IF channel = "none"
    THEN b
    ELSE LET cursor == IF loadMore THEN b.messagesCursorRef ELSE Null
             r == Request("channel", "fetchMessages", channel, cursor,
                          loadMore, awaited)
         IN  IF requestKey(r) \in b.inFlightRequests.channel
             THEN b
             ELSE issue([ b EXCEPT
                            !.inFlightRequests.channel = @ \cup {requestKey(r)},
                            !.isFetchingMessages = TRUE ], r)

\* fetchMessages after the await, the try branch.
fetchMessagesResponse(b, r, cursor, hasNextPage) ==
    LET shown == IF r.loadMore
                 THEN [ b EXCEPT !.messages = @ \cup {r.id} ]
                 ELSE [ b EXCEPT !.messages = {r.id},
                                 !.pollingState = r.id ]
    IN  [ shown EXCEPT !.messagesCursorRef = cursor,
                       !.hasMoreMessages = hasNextPage ]

\* useCurrentChannel.fetchLatestMessages(), up to the await; `channel` and
\* `pollingState` are those of the render the callback was made in.
fetchLatestMessages(b, channel, pollingState) ==
    IF channel = "none"
    THEN b
    ELSE IF pollingState = "none" \/ pollingState # channel
    THEN fetchMessages(b, channel, FALSE, FALSE)
    ELSE LET r == Request("channel", "fetchLatestMessages", channel, Null,
                          FALSE, FALSE)
         IN  IF requestKey(r) \in b.inFlightRequests.channel
             THEN b
             ELSE issue([ b EXCEPT
                            !.inFlightRequests.channel = @ \cup {requestKey(r)} ],
                        r)

\* fetchLatestMessages after the await, the try branch.
fetchLatestMessagesResponse(b, r, newMessages, cursor, hasNextPage) ==
    LET shown == IF newMessages
                 THEN [ b EXCEPT !.messages = @ \cup {r.id},
                                 !.pollingState = r.id,
                                 !.messagesCursorRef = cursor ]
                 ELSE b
    IN  [ shown EXCEPT !.hasMoreMessages = hasNextPage ]

\* sendMessage, the finally branch.
sendMessageFinally(b) ==
    [ b EXCEPT !.isSendingMessage = FALSE, !.send = NoSend ]

\* fetchMessages, the finally branch; a sendMessage that awaited the fetch
\* returns.
fetchMessagesFinally(b, r) ==
    LET done == release([ b EXCEPT !.isFetchingMessages = FALSE ], r)
    IN  IF r.awaited THEN sendMessageFinally(done) ELSE done

\* sendMessage with the member cap in hand: the transaction is built and
\* handed to sponsorAndExecuteTransaction.
sponsorAndExecuteTransaction(b, memberCapId, source, stale) ==
    issue([ b EXCEPT !.send.memberCapId = memberCapId,
                     !.resolved = [ channelId |-> b.send.channelId,
                                    source |-> source, stale |-> stale ] ],
          Request("channel", "sponsorAndExecuteTransaction",
                  b.send.channelId, Null, FALSE, FALSE))

\* getMemberCapForChannel with the membership list in hand: the member cap
\* of the channel is looked up in it and cached; without one sendMessage
\* throws.
findMemberCap(b, source, stale) ==
    LET channelId == b.send.channelId
        memberships == b.membership.channel.membershipsCache[1]
    IN  IF channelId \in memberships
        THEN sponsorAndExecuteTransaction(
               [ b EXCEPT !.membership.channel.memberCapCache[channelId] =
                            memberCapOf(channelId) ],
               memberCapOf(channelId), source, stale)
        ELSE sendMessageFinally(b)

\* useCurrentChannel.sendMessage up to its first request:
\* getMemberCapForChannel answers from memberCapCache, from membershipsCache,
\* or asks for the memberships.
sendMessage(b) ==
    IF b.currentChannel = "none"
    THEN b
    ELSE LET channelId == b.currentChannel
             m == b.membership.channel
             sending == [ b EXCEPT !.isSendingMessage = TRUE,
                                   !.send = [ channelId |-> channelId,
                                              memberCapId |-> "none" ] ]
         IN  IF m.memberCapCache[channelId] # "none"
             THEN sponsorAndExecuteTransaction(sending,
                    m.memberCapCache[channelId], "memberCapCache",
                    channelId \in b.stale)
             ELSE IF m.membershipsCache # << >>
             THEN findMemberCap(sending, "membershipsCache",
                                "memberships" \in b.stale)
             ELSE issue(sending,
                        Request("channel", "getChannelMemberships",
                                userAddress, Null, FALSE, FALSE))

\* ------------------------------------------------------ frontend, Channel
\* checkSessionExpiration: sessionKey && sessionKey.isExpired()
checkSessionExpiration(b) == b.sessionKey = "expired"

\* useEffect(..., [isReady, channelId, sessionKey]): fetch channel on mount
fetchChannelOnMount(b) ==
    IF b.channelId = "none" \/ checkSessionExpiration(b)
    THEN b
    ELSE getChannelById(b, b.channelId)

\* The effect without its checkSessionExpiration.
fetchMessagesWhenLoadedUnchecked(b) ==
    IF b.currentChannel = "none" \/ b.currentChannel # b.channelId
    THEN b
    ELSE fetchMessages(b, b.currentChannel, FALSE, FALSE)

\* useEffect(..., [currentChannel, channelId]): fetch messages when the
\* current channel is loaded
fetchMessagesWhenLoaded(b) ==
    IF b.currentChannel = "none" \/ b.currentChannel # b.channelId
    THEN b
    ELSE IF checkSessionExpiration(b)
    THEN b
    ELSE fetchMessages(b, b.currentChannel, FALSE, FALSE)

\* useEffect(..., [currentChannel, isReady]): the interval is set up again
\* with the fetchLatestMessages of this render.
autoRefresh(b) == [ b EXCEPT !.intervalPollingState = b.pollingState ]

\* getChannelById after the await: the channel found becomes the current
\* channel and the effects that depend on it run.
getChannelByIdResponse(b, r, found) ==
    IF found
    THEN autoRefresh(fetchMessagesWhenLoaded(
           [ b EXCEPT !.currentChannel = r.id ]))
    ELSE b

\* ---------------------------------------------------- frontend, App.tsx
\* ChannelList and CreateChannel are rendered: the effect of useChannelList
\* fetches the channels.
mountChannelList(sessionKey) ==
    fetchChannels(FirstRender("list", "none", sessionKey), FALSE)

\* <Channel channelId={channelId} /> is rendered: the effect of
\* useChannelList, then the effects of Channel.
mountChannel(channelId, sessionKey) ==
    fetchMessagesWhenLoaded(fetchChannelOnMount(
      fetchChannels(FirstRender("channel", channelId, sessionKey), FALSE)))

\* App renders with isUserReady false: neither view is shown.  The
\* bookkeeping of the properties is kept.
sessionModal(b) ==
    [ FirstRender("none", "none", b.sessionKey) EXCEPT
        !.expiredIo = b.expiredIo ]

\* What is carried from one view to the next: the bookkeeping only.
carried(b, next) == [ next EXCEPT !.expiredIo = b.expiredIo ]

\* ----------------------------------------------- frontend, what happens
\* The bot is not touched by the browser.
bot == << stream, chainMembers, encryptionKeyHistory, processEnv, exitCode,
          isRunning, pc, lastCursor, currentSessionKey, messages, nextCursor,
          idx, botMemberChannels, indexerClient, senderClient, now,
          cachedSessionKey, sessionKeyExpiry, createdAt, failures, replies,
          retry, cycle >>

\* The requests in flight.
Outstanding(b) == BagCardinality(b.network)

\* The TTL of the session key of the user elapses.
SessionExpires ==
    /\ browser.view # "none"
    /\ browser.sessionKey = "valid"
    /\ browser' = [ browser EXCEPT !.sessionKey = "expired" ]
    /\ UNCHANGED bot

\* The user opens a channel of the list: the hash changes, App renders
\* Channel in place of the list (or neither once the key is expired).
openChannel ==
    /\ browser.view = "list"
    /\ \E c \in Channels :
         browser' = IF checkSessionExpiration(browser)
                    THEN sessionModal(browser)
                    ELSE carried(browser, mountChannel(c, browser.sessionKey))
    /\ Outstanding(browser') <= MaxRequests
    /\ UNCHANGED bot

\* onBack of Channel: the hash is cleared, App renders the list.
onBack ==
    /\ browser.view = "channel"
    /\ browser' = IF checkSessionExpiration(browser)
                  THEN sessionModal(browser)
                  ELSE carried(browser, mountChannelList(browser.sessionKey))
    /\ Outstanding(browser') <= MaxRequests
    /\ UNCHANGED bot

\* handleHashChange while a channel is shown: the hash names another channel
\* and Channel, still mounted, renders with the new channelId.
handleHashChange ==
    /\ browser.view = "channel"
    /\ \E c \in Channels \ {browser.channelId} :
         browser' = IF checkSessionExpiration(browser)
                    THEN sessionModal(browser)
                    ELSE fetchMessagesWhenLoaded(fetchChannelOnMount(
                           [ browser EXCEPT !.channelId = c ]))
    /\ Outstanding(browser') <= MaxRequests
    /\ UNCHANGED bot

\* ChannelList: the interval of 10 seconds, or the Refresh button.
refreshChannels ==
    /\ browser.view = "list"
    /\ browser' = fetchChannels(browser, FALSE)
    /\ Outstanding(browser') <= MaxRequests
    /\ UNCHANGED bot

\* ChannelList: the Load More button.
loadMoreChannels ==
    /\ browser.view = "list"
    /\ browser.hasMoreChannels
    /\ ~browser.isFetchingChannels
    /\ browser' = fetchChannels(browser, TRUE)
    /\ Outstanding(browser') <= MaxRequests
    /\ UNCHANGED bot

\* Channel: the callback of the interval of 5 seconds.
autoRefreshTick ==
    /\ browser.view = "channel"
    /\ browser.currentChannel # "none"
    /\ browser' = IF ~checkSessionExpiration(browser)
                  THEN fetchLatestMessages(browser, browser.currentChannel,
                                           browser.intervalPollingState)
                  ELSE browser
    /\ Outstanding(browser') <= MaxRequests
    /\ UNCHANGED bot

\* Channel.handleLoadMore
handleLoadMore ==
    /\ browser.view = "channel"
    /\ browser' = IF checkSessionExpiration(browser)
                  THEN browser
                  ELSE IF browser.hasMoreMessages /\ ~browser.isFetchingMessages
                  THEN fetchMessages(browser, browser.currentChannel, TRUE,
                                     FALSE)
                  ELSE browser
    /\ Outstanding(browser') <= MaxRequests
    /\ UNCHANGED bot

\* Channel.handleSendMessage with a text typed in.
handleSendMessage ==
    /\ browser.view = "channel"
    /\ browser' = IF checkSessionExpiration(browser)
                  THEN browser
                  ELSE IF browser.isSendingMessage
                  THEN browser
                  ELSE sendMessage(browser)
    /\ Outstanding(browser') <= MaxRequests
    /\ UNCHANGED bot

\* The requests of `kind` that are in flight.
InFlight(kind) == { r \in BagToSet(browser.network) : r.kind = kind }

\* getChannelObjectsByAddress settles.
fetchChannelsSettles ==
    /\ \E r \in InFlight("fetchChannels") :
         LET b == settled(browser, r)
         IN  \/ \E cursor \in 0..MaxCursor, hasNextPage \in BOOLEAN :
                  browser' = fetchChannelsFinally(
                    fetchChannelsResponse(b, r, cursor, hasNextPage), r)
             \/ browser' = fetchChannelsFinally(b, r)
    /\ UNCHANGED bot

\* getChannelObjectsByChannelIds settles: with the channel, with an empty
\* array or with an error.
getChannelByIdSettles ==
    /\ \E r \in InFlight("getChannelById"), found \in BOOLEAN :
         browser' = getChannelByIdResponse(settled(browser, r), r, found)
    /\ UNCHANGED bot

\* getChannelMessages settles.
fetchMessagesSettles ==
    /\ \E r \in InFlight("fetchMessages") :
         LET b == settled(browser, r)
         IN  \/ \E cursor \in 0..MaxCursor, hasNextPage \in BOOLEAN :
                  browser' = fetchMessagesFinally(
                    fetchMessagesResponse(b, r, cursor, hasNextPage), r)
             \/ browser' = fetchMessagesFinally(b, r)
    /\ UNCHANGED bot

\* getLatestMessages settles.
fetchLatestMessagesSettles ==
    /\ \E r \in InFlight("fetchLatestMessages") :
         LET b == settled(browser, r)
         IN  \/ \E cursor \in 0..MaxCursor, hasNextPage \in BOOLEAN :
                  browser' = release(
                    fetchLatestMessagesResponse(b, r, TRUE, cursor,
                                                hasNextPage), r)
             \/ \E hasNextPage \in BOOLEAN :
                  browser' = release(
                    fetchLatestMessagesResponse(b, r, FALSE, Null,
                                                hasNextPage), r)
             \/ browser' = release(b, r)
    /\ UNCHANGED bot

\* getChannelMemberships settles: the list is cached and searched, or
\* getMemberCapForChannel answers null and sendMessage throws.
getChannelMembershipsSettles ==
    /\ \E r \in InFlight("getChannelMemberships"), ok \in BOOLEAN :
         LET b == settled(browser, r)
         IN  browser' =
               IF ok
               THEN findMemberCap(
                      [ b EXCEPT !.membership.channel.membershipsCache =
                                   << userMemberships >> ],
                      "lookup", FALSE)
               ELSE sendMessageFinally(b)
    /\ UNCHANGED bot

\* sponsorAndExecuteTransaction settles: sendMessage waits for the
\* transaction, or throws.
sponsorAndExecuteTransactionSettles ==
    /\ \E r \in InFlight("sponsorAndExecuteTransaction"), ok \in BOOLEAN :
         LET b == settled(browser, r)
         IN  browser' =
               IF ok
               THEN issue(b, Request("channel", "waitForTransaction", r.id,
                                     Null, FALSE, FALSE))
               ELSE sendMessageFinally(b)
    /\ UNCHANGED bot

\* suiClient.waitForTransaction settles: `await fetchMessages()` with the
\* fetchMessages sendMessage closed over, then the finally branch.
waitForTransactionSettles ==
    /\ \E r \in InFlight("waitForTransaction"), ok \in BOOLEAN :
         LET b == settled(browser, r)
             fetching == fetchMessages(b, r.id, FALSE, TRUE)
         IN  browser' =
               IF ok /\ fetching # b
               THEN fetching
               ELSE sendMessageFinally(b)
    /\ UNCHANGED bot

\* The bot as it starts, and the browser of a signed-in user whose session
\* key is valid showing the channel list.
FrontendInit ==
    /\ stream = << >>
    /\ chainMembers = InitialChannels
    /\ encryptionKeyHistory = [ c \in Channels |-> 1 ]
    /\ processEnv = ValidEnv
    /\ exitCode = "none"
    /\ browser = mountChannelList("valid")
    /\ isRunning = TRUE
    /\ pc = "start"
    /\ lastCursor = Null
    /\ currentSessionKey = 1
    /\ indexerClient = 1
    /\ senderClient = 1
    /\ now = 0
    /\ cachedSessionKey = 1
    /\ sessionKeyExpiry = SESSION_KEY_TTL_MINUTES - SafetyMarginMinutes
    /\ createdAt = [ k \in 1..MaxKeys |-> IF k = 1 THEN 0 ELSE Null ]
    /\ messages = << >>
    /\ nextCursor = Null
    /\ idx = 0
    /\ botMemberChannels = {}
    /\ failures = 0
    /\ replies = [ id \in 1..MaxEvents |-> 0 ]
    /\ retry = NoRetry
    /\ cycle = NewCycle(Null)

\* The user browses: the list, a channel, another channel, back; the views
\* fetch and poll.  No message is sent and the session key stays valid.
BrowseNext ==
    \/ openChannel
    \/ onBack
    \/ handleHashChange
    \/ refreshChannels
    \/ loadMoreChannels
    \/ autoRefreshTick
    \/ handleLoadMore
    \/ fetchChannelsSettles
    \/ getChannelByIdSettles
    \/ fetchMessagesSettles
    \/ fetchLatestMessagesSettles

BrowseSpec == FrontendInit /\ [][BrowseNext]_vars

\* The user opens one channel and stays in it: the view fetches and polls,
\* messages are sent, the session key expires.  The callback of the interval
\* closes over the pollingState of the render in which currentChannel was
\* set, which is null as long as the channel is not switched: every poll
\* falls back to fetchMessages and no getLatestMessages is in flight.
SendNext ==
    \/ openChannel
    \/ autoRefreshTick
    \/ handleLoadMore
    \/ handleSendMessage
    \/ SessionExpires
    \/ fetchChannelsSettles
    \/ getChannelByIdSettles
    \/ fetchMessagesSettles
    \/ getChannelMembershipsSettles
    \/ sponsorAndExecuteTransactionSettles
    \/ waitForTransactionSettles

SendSpec == FrontendInit /\ [][SendNext]_vars

\* ------------------------------------------------------------ properties
Ids(s) == [ i \in 1..Len(s) |-> s[i].id ]

CycleOver == pc \in {"sleep", "done"}

C4_AntiLoop ==
    /\ \A i \in 1..Len(messages) :
          /\ messages[i].sender # botAddress
          /\ stream[messages[i].id].sender # botAddress
    /\ \A i \in 1..Len(cycle.started) :
          stream[cycle.started[i]].sender # botAddress
    /\ \A id \in 1..Len(stream) :
          replies[id] > 0 => stream[id].sender # botAddress

\* A page with a message of the bot itself, in a channel of the membership
\* snapshot, next to a user's message that was replied to.
C4_Witness ==
    /\ pc = "sleep"
    /\ Len(cycle.sent) >= 1
    /\ \E id \in Range(cycle.page) :
          /\ stream[id].sender = botAddress
          /\ stream[id].channel_id \in botMemberChannels
          /\ isMessageAddedEvent(stream[id])
          /\ ~isBeforeStart(stream[id])

\* C5: an event stamped strictly before the start of the process is never in
\* the batch, whichever cursor the page was fetched from.
C5_AntiReplay ==
    \A i \in 1..Len(messages) :
        /\ stream[messages[i].id].timestampMs >= startTimestamp
        /\ messages[i].timestamp >= startTimestamp

\* A page fetched from a non-null cursor that holds a message stamped
\* before the start, of a user, in a member channel.
C5_Witness ==
    /\ cycle.fetched
    /\ cycle.startCursor # Null
    /\ \E id \in Range(cycle.page) :
          /\ stream[id].timestampMs < startTimestamp
          /\ stream[id].sender # botAddress
          /\ stream[id].channel_id \in botMemberChannels
          /\ isMessageAddedEvent(stream[id])

\* C7: the batch is in the ascending order of the stream, the dispatches are
\* started in the order of the batch and return in that order, and a dispatch
\* starts only when the one before it has returned.
C7_DispatchOrder ==
    /\ \A i, j \in 1..Len(messages) : i < j => messages[i].id < messages[j].id
    /\ Len(cycle.started) <= Len(messages)
    /\ \A i \in 1..Len(cycle.started) : cycle.started[i] = messages[i].id
    /\ Len(cycle.sent) <= Len(cycle.started)
    /\ \A i \in 1..Len(cycle.sent) : cycle.sent[i].id = cycle.started[i]
    /\ Len(cycle.started) <= Len(cycle.sent) + 1
    /\ pc \in {"generate", "resolve"} => Len(cycle.started) = Len(cycle.sent)

\* Two replies dispatched in one cycle.
C7_Witness ==
    /\ pc = "sleep"
    /\ Len(cycle.sent) = 2
    /\ cycle.error = "none"

\* C8: cursor C0, a fetch of three events for the channels A, B, A with the
\* membership {A} and no failure: the event for B is not in the batch, exactly
\* two replies are dispatched, for the first and then the third event, both to
\* A, and the cursor is then the next cursor of the query (the third event).
C8_ScenarioABA ==
    LET p == cycle.page
    IN  ( /\ pc = "sleep"
          /\ cycle.fetched /\ ~cycle.queryFailed
          /\ cycle.error = "none"
          /\ cycle.nulls = {}
          /\ Len(p) = 3
          /\ [ i \in 1..3 |-> stream[p[i]] ] = ScenarioEvents
          /\ botMemberChannels = {"A"}
          /\ \A i \in 1..Len(cycle.sent) : cycle.sent[i].status = "success" )
        => /\ p[2] \notin Range(Ids(messages))
           /\ cycle.sent =
                << [ id |-> p[1], channelId |-> "A", status |-> "success" ],
                   [ id |-> p[3], channelId |-> "A", status |-> "success" ] >>
           /\ lastCursor = nextCursor
           /\ lastCursor = p[3]

\* The scenario ran to the end of its cycle from a non-null cursor C0.
C8_Witness ==
    /\ pc = "sleep"
    /\ cycle.fetched /\ ~cycle.queryFailed
    /\ cycle.error = "none"
    /\ cycle.nulls = {}
    /\ cycle.startCursor # Null
    /\ Len(cycle.page) = 3
    /\ [ i \in 1..3 |-> stream[cycle.page[i]] ] = ScenarioEvents
    /\ botMemberChannels = {"A"}
    /\ Len(cycle.sent) = 2
    /\ \A i \in 1..Len(cycle.sent) : cycle.sent[i].status = "success"

\* C9: when the event query of getMessagesSince fails, the result is the empty
\* batch with the input cursor as nextCursor, no error reaches the loop, and
\* the cycle leaves the cursor of the loop as it was.
C9_QueryErrorEchoesCursor ==
    cycle.queryFailed
        => /\ messages = << >>
           /\ nextCursor = cycle.startCursor
           /\ cycle.error = "none"
           /\ pc \in {"advance", "sleep", "done"}
           /\ lastCursor = cycle.startCursor

\* A cycle whose query failed while events were waiting after the cursor.
C9_Witness ==
    /\ cycle.queryFailed
    /\ pc = "sleep"
    /\ Len(stream) > lastCursor

\* C10: a decrypt that yields null removes that one message only: the batch
\* is, in order, every event of the page that passes the filter and whose
\* decrypt gave a text, and the cycle goes on to process it and to advance
\* the cursor.
Decoded ==
    SelectSeq(cycle.page,
              LAMBDA id : /\ passesFilter(stream[id], botMemberChannels)
                          /\ id \notin cycle.nulls)

C10_NullSkipsOneMessage ==
    /\ cycle.fetched /\ ~cycle.queryFailed => Ids(messages) = Decoded
    /\ cycle.nulls # {} =>
          /\ cycle.error \in {"none", "generate", "send"}
          /\ pc = "sleep" /\ cycle.error = "none"
                => lastCursor = nextCursor /\ Ids(cycle.sent) = Decoded

\* A batch where the decrypt of the first message gave null and the second
\* message was decrypted and replied to.
C10_Witness ==
    /\ pc = "sleep"
    /\ cycle.error = "none"
    /\ \E id \in cycle.nulls : \E i \in 1..Len(cycle.sent) :
          cycle.sent[i].id > id

\* C3: a dispatch that throws on message k of the batch ends the cycle: the
\* messages before k were dispatched, k was started, the messages after k were
\* not, and the cursor is the one the cycle started from.  The cursor stays
\* there until the next query that succeeds, whose page holds every event of
\* the failed batch again.  The messages before k are dispatched a second
\* time in that cycle when it ends without an error, no decrypt gave null
\* and their channels are still in the membership of the cycle.
FailedBatchBefore == SubSeq(retry.batch, 1, retry.k - 1)

Addressed(id) ==
    /\ id \in Range(cycle.page)
    /\ stream[id].channel_id \in InitialChannels
    /\ passesFilter(stream[id], InitialChannels)

C2_AtLeastOnce ==
    \A id \in 1..MaxEvents : Addressed(id) ~> (replies[id] > 0)

\* C6: an event for a channel absent from the membership of the cycle that
\* fetches it is not in the batch of that cycle, and is in the batch of a
\* later cycle once the membership of the channel is granted for good.
Gated(id) ==
    /\ cycle.fetched
    /\ id \in Range(cycle.page)
    /\ stream[id].channel_id \notin botMemberChannels
    /\ passesFilter(stream[id], botMemberChannels \cup {stream[id].channel_id})

Granted(id) ==
    /\ id \in DOMAIN stream
    /\ stream[id].channel_id \in botMemberChannels

C6_MembershipGating ==
    \A id \in 1..MaxEvents :
        /\ [](Gated(id) => id \notin Range(Ids(messages)))
        /\ [](Gated(id) =>
                ( <>[]Granted(id) => <>(id \in Range(Ids(messages))) ))

\* C11: a reply whose transaction reached finality with a failure status
\* makes sendMessage fail: no sendMessage call returns for such a
\* transaction, and a cycle with one does not advance the cursor.
FailedStatus(c) == \E i \in 1..Len(c.sent) : c.sent[i].status = "failure"

C11_FailedStatusIsError ==
    /\ ~FailedStatus(cycle)
    /\ FailedStatus(cycle) => lastCursor = cycle.startCursor

\* C12: when sendMessage finds no member cap for the channel, or a lookup of
\* the cap or of the encrypted key gives nothing, the call throws before a
\* transaction is built: the step leaves `resolve` for the catch of the loop
\* with nothing submitted, no reply and the cursor as it was; a transaction
\* is submitted only for a channel whose member cap was found.
C12_NoCapNoTransaction ==
    /\ [](pc \in {"submit", "wait"} => messages[idx].channelId \in chainMembers)
    /\ [][ ( /\ pc = "resolve"
             /\ pc' # "resolve"
             /\ messages[idx].channelId \notin chainMembers \/ pc' # "submit" )
           => /\ pc' = "sleep"
              /\ cycle'.error = "send"
              /\ cycle'.failedAt = idx
              /\ cycle'.txStatus = "none"
              /\ cycle'.sent = cycle.sent
              /\ replies' = replies
              /\ lastCursor' = lastCursor ]_vars

\* A send ended at a channel for which the bot has no member cap.
C12_Witness ==
    /\ pc = "sleep"
    /\ cycle.error = "send"
    /\ messages[cycle.failedAt].channelId \notin chainMembers
    /\ Len(cycle.sent) = cycle.failedAt - 1
    /\ replies[messages[cycle.failedAt].id] = 0

\* C13: sendMessage does not retry.  One call makes at most one
\* signAndExecuteTransaction call, its steps are taken once and in order, and
\* a step that fails ends the call with the error at the catch of the loop.
InSend == pc \in {"resolve", "submit", "wait"}

FreshUntil(key) ==
    createdAt[key] + SESSION_KEY_TTL_MINUTES - SafetyMarginMinutes

C14_CredentialFreshness ==
    /\ [](sessionKeyExpiry # Null => sessionKeyExpiry = FreshUntil(cachedSessionKey))
    /\ [][ pc = "init" /\ pc' = "called"
           => IF cachedSessionKey # Null /\ now < FreshUntil(cachedSessionKey)
              THEN /\ currentSessionKey' = cachedSessionKey
                   /\ cachedSessionKey' = cachedSessionKey
                   /\ sessionKeyExpiry' = sessionKeyExpiry
                   /\ createdAt' = createdAt
              ELSE /\ currentSessionKey' # cachedSessionKey
                   /\ createdAt[currentSessionKey'] = Null
                   /\ createdAt'[currentSessionKey'] = now
                   /\ cachedSessionKey' = currentSessionKey'
                   /\ sessionKeyExpiry # Null => sessionKeyExpiry' > sessionKeyExpiry ]_vars

\* The second key was returned by a call made after the first key had been
\* returned from the cache up to the last minute before its margin.
C14_Witness ==
    /\ pc = "called"
    /\ currentSessionKey = 2
    /\ cachedSessionKey = 2
    /\ createdAt[2] = FreshUntil(1)
    /\ now = createdAt[2]

\* C15: the decrypt and send I/O of a cycle goes through clients built from
\* the key the renewal returned: after a renewal no I/O uses a key created
\* before the newest one, and the renewal hands the new client to the indexer
\* and to the sender in the step that assigns currentSessionKey.
C15_NoIoWithPreviousKey ==
    /\ [](\A k \in cycle.ioKeys : k = currentSessionKey /\ k = cachedSessionKey)
    /\ [][ currentSessionKey' # currentSessionKey
           => /\ indexerClient' = currentSessionKey'
              /\ senderClient' = currentSessionKey'
              /\ cycle'.ioKeys = {} ]_vars

\* A cycle that renewed the key and then decrypted and replied with it.
C15_Witness ==
    /\ pc = "sleep"
    /\ currentSessionKey = 2
    /\ cycle.ioKeys = {2}
    /\ Len(cycle.sent) >= 1
    /\ createdAt[2] = now

\* C16: a cycle whose renewal fails is aborted (nothing is fetched, no
\* decrypt or send I/O, the cursor as it was) and the next cycle tries the
\* renewal again; no decrypt or send I/O is ever done with a key that is
\* expired at that moment.
C16_NoIoWithExpiredKey ==
    /\ [](cycle.error = "renew" =>
            /\ ~cycle.fetched
            /\ cycle.ioKeys = {}
            /\ lastCursor = cycle.startCursor)
    /\ [][ pc = "renew" /\ pc' = "fetch" /\ isExpired(currentSessionKey)
           => currentSessionKey' # currentSessionKey ]_vars
    /\ [](~cycle.ioExpired)

\* C17: after the check of the key at the head of a cycle and before the
\* events are fetched, the key in use is fresh for the session key manager
\* (now is before the key's expiry minus the safety margin) and the indexer
\* and the sender hold it.
C17_FreshBeforeFetch ==
    [][ pc = "renew" /\ pc' = "fetch"
        => /\ now < FreshUntil(currentSessionKey')
           /\ indexerClient' = currentSessionKey'
           /\ senderClient' = currentSessionKey' ]_vars

\* C18: wherever the indexer or the sender can do I/O both hold a client of
\* the same key, the key the session key manager has cached, and a step
\* that changes the key of one of them changes both to the cached key.
IoPoint == pc \in {"fetch", "generate", "resolve", "submit", "wait"}

C18_OneActiveKey ==
    /\ [](IoPoint => /\ indexerClient = senderClient
                     /\ indexerClient = cachedSessionKey
                     /\ indexerClient = currentSessionKey)
    /\ [][ indexerClient' # indexerClient \/ senderClient' # senderClient
           => /\ indexerClient' = senderClient'
              /\ indexerClient' = cachedSessionKey'
              /\ pc = "renew" ]_vars

\* After a renewal whose client could not be built and a second one that
\* went through, the sender is about to do I/O with the key that is cached.
C18_Witness ==
    /\ pc = "resolve"
    /\ failures >= 1
    /\ indexerClient = 2
    /\ senderClient = 2
    /\ cachedSessionKey = 2
    /\ cycle.ioKeys = {2}

\* C19: a membership refresh in which getOwnedObjects fails, on the first
\* page or on a later one, leaves botMemberChannels as it was before the
\* refresh.
C19_RefreshFailureKeepsSet ==
    [][ pc = "fetch" /\ pc' # "fetch" /\ cycle'.refreshFailedAt # 0
        => botMemberChannels' = botMemberChannels ]_vars

\* The refresh failed on its second page, after the first page had been
\* read, and the set is the one of the last refresh, not the one on chain.
C19_Witness ==
    /\ cycle.refreshFailedAt = 2
    /\ pc \in {"generate", "advance"}
    /\ botMemberChannels = {"A"}
    /\ chainMembers = {"A", "B"}

\* C20: a cycle whose membership refresh failed is aborted: it fetches no
\* events, has no batch, replies to nothing, and leaves the cursor as it was.
C20_RefreshFailureAborts ==
    cycle.refreshFailed
        => /\ cycle.page = << >>
           /\ messages = << >>
           /\ cycle.started = << >>
           /\ lastCursor = cycle.startCursor

\* C21: a membership refresh that succeeds reads the pages until none is
\* left and replaces the set: after it the set is exactly the channels of
\* the MemberCaps on all pages, whatever it held before, and the batch of
\* the cycle is the page filtered with that whole set.
C21_RefreshReplacesSet ==
    [][ pc = "fetch" /\ pc' # "fetch" /\ cycle'.refreshFailedAt = 0
        => /\ botMemberChannels' = Range(ownedMemberCaps)
           /\ botMemberChannels' = chainMembers
           /\ ~cycle'.queryFailed
                => Ids(messages') =
                     SelectSeq(cycle'.page,
                               LAMBDA id : /\ passesFilter(stream[id], chainMembers)
                                           /\ id \notin cycle'.nulls) ]_vars

\* An event of channel B was replied to while the bot was a member (a
\* refresh of two pages); the bot was removed and the refresh of this cycle
\* left channel A only.
C21_Witness ==
    /\ cycle.fetched
    /\ cycle.refreshFailedAt = 0
    /\ botMemberChannels = {"A"}
    /\ \E id \in 1..Len(stream) :
          /\ stream[id].channel_id = "B"
          /\ replies[id] > 0

\* C22: the cycles do not overlap and the loop has one call in flight at a
\* time: the steps of a cycle follow one another in the order of the code,
\* a dispatch starts only when the one before it has returned, and a cycle
\* starts only from the head of the loop, after the cycle before it has
\* advanced the cursor over its whole batch or has ended in the catch.
StepOrder ==
    { << "start", "loop" >>, << "loop", "renew" >>, << "loop", "done" >>,
      << "sleep", "renew" >>, << "sleep", "done" >>,
      << "renew", "fetch" >>, << "renew", "sleep" >>,
      << "fetch", "generate" >>, << "fetch", "advance" >>,
      << "generate", "resolve" >>, << "generate", "sleep" >>,
      << "resolve", "submit" >>, << "resolve", "sleep" >>,
      << "submit", "wait" >>, << "submit", "sleep" >>,
      << "wait", "generate" >>, << "wait", "advance" >>,
      << "wait", "sleep" >>, << "advance", "sleep" >> }

CycleCompleted ==
    /\ cycle.error = "none"
    /\ cycle.fetched
    /\ Ids(cycle.sent) = Ids(messages)
    /\ Len(cycle.started) = Len(cycle.sent)
    /\ lastCursor = advanceCursor(nextCursor, cycle.startCursor)

CycleFailed == cycle.error # "none"

C22_NoOverlap ==
    /\ [][ pc' # pc => << pc, pc' >> \in StepOrder ]_vars
    /\ [][ pc' = "renew" /\ pc # "renew"
           => /\ AtLoopHead
              /\ pc = "sleep" => CycleCompleted \/ CycleFailed ]_vars
    /\ [][ cycle'.startCursor # cycle.startCursor \/ cycle'.fetched # cycle.fetched
           => pc \in {"loop", "sleep", "fetch"} ]_vars
    /\ [](Len(cycle.started) <= Len(cycle.sent) + 1)

\* A cycle starts after a cycle that fetched, replied and advanced the
\* cursor.
C22_Witness ==
    /\ pc = "renew"
    /\ cycle.startCursor # Null
    /\ \E id \in 1..Len(stream) : replies[id] > 0

\* C23: the shutdown is cooperative: after the stop signal no new cycle
\* starts, the cycle that is running goes on to its end, and the process
\* exits only when no cycle is running (the loop is at its head or has
\* returned).
C23_CooperativeShutdown ==
    /\ [][ ~isRunning => ~(pc' = "renew" /\ pc # "renew") ]_vars
    /\ [][ pc' = "exited" /\ pc # "exited"
           => pc \in {"start", "loop", "sleep", "done"} ]_vars

\* C24: an event that was in the stream before the process started (the
\* node stamped it before the start timestamp the indexer took) is never
\* decrypted, never dispatched for and never replied to, from whichever
\* initial cursor the loop starts, the null cursor included.
BeforeProcessStart(id) == stream[id].timestampMs < startTimestamp

C24_NoReplyToHistory ==
    \A id \in 1..Len(stream) :
        BeforeProcessStart(id)
            => /\ replies[id] = 0
               /\ id \notin Range(cycle.started)
               /\ id \notin Range(Ids(messages))
               /\ id \notin cycle.nulls

\* The loop started from the null cursor, the first page held a message of
\* a user in a member channel from before the start, and the cycle replied
\* to a later message of the page.
C24_Witness ==
    /\ cycle.startCursor = Null
    /\ Len(cycle.sent) >= 1
    /\ \E id \in Range(cycle.page) :
          /\ BeforeProcessStart(id)
          /\ passesFilterNoStartCheck(stream[id], botMemberChannels)
          /\ id < cycle.sent[1].id

\* C25: every text a transaction of the bot puts into a channel is the reply
\* generateResponse returned for an event of that channel, in the iteration
\* of that event; a step that fails (oracle, dispatch) puts nothing into a
\* channel, and neither does a decrypt that gave null.
C25_OnlyOracleReplies ==
    /\ [](\A i \in 1..Len(cycle.posted) :
            LET p == cycle.posted[i]
            IN  /\ p.text.kind = "completion"
                /\ p.text.id \in Range(Ids(messages))
                /\ stream[p.text.id].channel_id = p.channelId
                /\ p.text.id \notin cycle.nulls)
    /\ [][ cycle'.posted # cycle.posted /\ cycle'.posted # << >>
           => /\ pc = "submit"
              /\ cycle'.posted =
                   Append(cycle.posted,
                          [ channelId |-> stream[messages[idx].id].channel_id,
                            text |-> chatCompletion(messages[idx].id) ])
              /\ cycle'.error = "none" ]_vars
    /\ [][ cycle'.error # "none" /\ cycle.error = "none"
           => /\ cycle'.posted = cycle.posted
              /\ replies' = replies ]_vars

\* The first message of a batch was replied to, the oracle failed for the
\* second: one text in the channel, the reply to the first.
C25_Witness ==
    /\ pc = "sleep"
    /\ cycle.error = "generate"
    /\ cycle.failedAt = 2
    /\ Len(cycle.posted) = 1
    /\ cycle.posted[1].text = chatCompletion(messages[1].id)

\* C26: the history handed to generateResponse for a message of channel c is
\* the sequence of the records appended for c before it, the user's turn and
\* the bot's turn of every earlier message of c that was replied to, in
\* order, cut to the HistoryLimit most recent.
RECURSIVE EarlierTurns(_, _)
EarlierTurns(c, id) ==
    IF id = 0 THEN << >>
    ELSE EarlierTurns(c, id - 1) \o
         ( IF stream[id].channel_id = c /\ replies[id] > 0
           THEN << [ role |-> "user", id |-> id ],
                   [ role |-> "assistant", id |-> id ] >>
           ELSE << >> )

Recent(records) ==
    SubSeq(records,
           IF Len(records) > HistoryLimit THEN Len(records) - HistoryLimit + 1
           ELSE 1,
           Len(records))

C26_HistoryHanded ==
    pc = "resolve"
        => cycle.history =
             Recent(EarlierTurns(messages[idx].channelId, messages[idx].id - 1))

\* C27: every sendMessage call that builds a transaction reads the channel
\* object in that call and uses the latest key bytes and the latest version
\* the object holds at that moment: a key rotated between two sends is the
\* key of the second send.
C27_KeyResolvedPerSend ==
    /\ [][ pc = "resolve" /\ pc' = "submit"
           => LET c == messages[idx].channelId
              IN  cycle'.encryptedKeys =
                    Append(cycle.encryptedKeys,
                           [ kind |-> "Encrypted",
                             encryptedBytes |-> << c, encryptionKeyHistory[c] >>,
                             version |-> encryptionKeyHistory[c] ]) ]_vars
    /\ [](Len(cycle.encryptedKeys) >= cycle.txs)
    /\ [](pc \in {"submit", "wait"}
            => Len(cycle.encryptedKeys) = Len(cycle.sent) + 1)

\* Two replies to channel A in one cycle, the key of the channel rotated
\* between them: the first was sent with version 1, the second with 2.
C27_Witness ==
    /\ pc = "sleep"
    /\ Len(cycle.sent) = 2
    /\ Len(cycle.encryptedKeys) = 2
    /\ cycle.encryptedKeys[1].encryptedBytes = << "A", 1 >>
    /\ cycle.encryptedKeys[2].encryptedBytes = << "A", 2 >>
    /\ cycle.encryptedKeys[2].version = 2

\* C28: a fatal error of the start ends the process and nothing is tried
\* again: with the private key missing or unparsable, or the API key
\* missing, or when the first session key cannot be created, the process
\* exits with code 1, it stays ended, and no poll cycle was run.
NoCycleRun ==
    /\ cycle = NewCycle(Null)
    /\ lastCursor = Null
    /\ botMemberChannels = {}
    /\ \A id \in DOMAIN replies : replies[id] = 0

FatalEnvironment ==
    \/ processEnv.BOT_PRIVATE_KEY # "valid"
    \/ processEnv.OPENAI_API_KEY = "missing"

C28_FatalStartupErrors ==
    /\ [](FatalEnvironment
            => pc \in {"import", "keypair", "exited"} /\ NoCycleRun)
    /\ [][ FatalEnvironment /\ pc' # pc
           => \/ pc' = "exited" /\ exitCode' = "1"
              \/ /\ pc = "import" /\ pc' = "keypair"
                 /\ processEnv.BOT_PRIVATE_KEY = "invalid"
                 /\ processEnv.OPENAI_API_KEY = "set" ]_vars
    /\ [][ pc = "init" /\ pc' # "init" /\ cachedSessionKey' = Null
           => pc' = "exited" /\ exitCode' = "1" ]_vars
    /\ [](exitCode = "1" => pc = "exited" /\ NoCycleRun)
    /\ [][ pc = "exited" => pc' = "exited" /\ exitCode' = exitCode ]_vars

\* The process ended at createBotKeypair: both keys are set, the private key
\* cannot be parsed.
C28_Witness ==
    /\ pc = "exited"
    /\ exitCode = "1"
    /\ processEnv.BOT_PRIVATE_KEY = "invalid"
    /\ processEnv.OPENAI_API_KEY = "set"

\* C29: a cycle takes its steps in the order key check or renewal,
\* membership refresh, event fetch, batch, cursor, sleep: the set a batch
\* was filtered with was refreshed in the cycle of the batch, before its
\* events were fetched, and the cursor is assigned after the last dispatch
\* of the batch has returned.
C29_CycleOrder ==
    /\ [][ pc' # pc => << pc, pc' >> \in StepOrder ]_vars
    /\ [](cycle.fetched /\ messages # << >> => ~cycle.refreshFailed)
    /\ [][ pc = "fetch" /\ pc' # "fetch" /\ messages' # << >>
           => botMemberChannels' = chainMembers ]_vars
    /\ [][ lastCursor' # lastCursor /\ pc # "start"
           => /\ pc = "advance"
              /\ Len(cycle.sent) = Len(messages)
              /\ Len(cycle.started) = Len(cycle.sent) ]_vars

\* C30: only an event whose type ends in MessageAddedEvent gives a batch
\* entry: an event of another kind of the message module is not decrypted
\* (it is neither in the batch nor among the decrypts that gave null), no
\* dispatch is started for it and it is never replied to.
C30_OnlyMessageAdded ==
    /\ \A i \in 1..Len(messages) :
          stream[messages[i].id].type = "MessageAddedEvent"
    /\ \A id \in cycle.nulls : stream[id].type = "MessageAddedEvent"
    /\ \A id \in Range(cycle.started) : stream[id].type = "MessageAddedEvent"
    /\ \A id \in 1..Len(stream) :
          replies[id] > 0 => stream[id].type = "MessageAddedEvent"

\* A page with an event of another kind, of a user in a member channel and
\* stamped after the start, ahead of a message that was replied to.
C30_Witness ==
    /\ pc = "sleep"
    /\ Len(cycle.sent) >= 1
    /\ \E id \in Range(cycle.page) :
          /\ stream[id].type # "MessageAddedEvent"
          /\ stream[id].channel_id \in botMemberChannels
          /\ ~isOwnMessage(stream[id].sender)
          /\ ~isBeforeStart(stream[id])
          /\ id < cycle.sent[1].id

\* C31: an event whose decrypt gave null is skipped for good: it is not in
\* the batch, the cycle that goes through the rest of the batch without an
\* error puts the cursor on or after it, the cursor never moves back, a
\* page holds only events after the cursor it was fetched from, and a reply
\* is only ever delivered for an event after the cursor that was decrypted.
C31_NullDecryptSkippedForGood ==
    /\ [](\A id \in cycle.nulls : id \notin Range(Ids(messages)))
    /\ [][ pc = "advance" /\ pc' = "sleep"
           => \A id \in cycle.nulls : lastCursor' >= id ]_vars
    /\ [][ pc # "start" => lastCursor' >= lastCursor ]_vars
    /\ [](\A id \in Range(cycle.page) : id > cycle.startCursor)
    /\ [][ \A id \in DOMAIN replies :
             replies'[id] # replies[id]
               => id > lastCursor /\ id \notin cycle.nulls ]_vars

\* The decrypt of the last event of a page gave null, the message before it
\* was replied to, and the cursor is on the event that was not decrypted.
C31_Witness ==
    /\ pc = "sleep"
    /\ cycle.error = "none"
    /\ Len(cycle.sent) >= 1
    /\ lastCursor \in cycle.nulls
    /\ replies[lastCursor] = 0

\* The message of the batch whose dispatch failed in the last failed cycle.
FailedMessage == retry.batch[retry.k]

C33_CursorMonotonic ==
    /\ [][ pc # "start"
           => /\ lastCursor' >= lastCursor
              /\ lastCursor # Null => lastCursor' # Null
              /\ lastCursor' # lastCursor
                   => /\ ~cycle.queryFailed
                      /\ cycle.reported # Null
                      /\ lastCursor' = cycle.reported ]_vars
    /\ [](cycle.fetched
            => nextCursor = IF cycle.reported # Null THEN cycle.reported
                            ELSE cycle.startCursor)
    /\ []( ( /\ pc = "sleep"
             /\ cycle.fetched
             /\ cycle.reported = Null )
           => lastCursor = cycle.startCursor )

\* A query from a cursor that is not null succeeded with an empty page and
\* no next cursor, and the cycle left the cursor as it was.
C33_Witness ==
    /\ pc = "sleep"
    /\ cycle.fetched
    /\ ~cycle.queryFailed
    /\ cycle.reported = Null
    /\ cycle.startCursor # Null
    /\ lastCursor = cycle.startCursor

\* C34: every sendMessage call of a cycle is made for one entry of the
\* batch, in the order of the batch and at most once per entry, so there are
\* at most as many calls as messages; the channel a call targets is the
\* channel of the event that triggered it, and that channel is in the
\* membership set the batch was filtered with.
C34_DispatchPerBatchEntry ==
    /\ [](/\ Len(cycle.started) <= Len(messages)
          /\ cycle.started = SubSeq(Ids(messages), 1, Len(cycle.started)))
    /\ [][ cycle'.started # cycle.started /\ cycle'.started # << >>
           => /\ pc = "resolve"
              /\ cycle'.started = Append(cycle.started, messages[idx].id) ]_vars
    /\ [](/\ Len(cycle.posted) <= Len(cycle.started)
          /\ \A i \in 1..Len(cycle.posted) :
               /\ \E j \in 1..Len(cycle.started) :
                    cycle.posted[i].channelId =
                      stream[cycle.started[j]].channel_id
               /\ cycle.posted[i].channelId \in botMemberChannels)
    /\ [](\A i \in 1..Len(cycle.sent) :
            /\ cycle.sent[i].id = messages[i].id
            /\ cycle.sent[i].channelId = stream[messages[i].id].channel_id
            /\ cycle.sent[i].channelId \in botMemberChannels)

\* A cycle dispatched a batch of two messages of two channels: two calls,
\* each to the channel of its message.
C34_Witness ==
    /\ pc = "sleep"
    /\ cycle.error = "none"
    /\ Len(messages) = 2
    /\ Len(cycle.sent) = 2
    /\ cycle.sent[1].channelId # cycle.sent[2].channelId
    /\ cycle.sent[1].channelId = stream[cycle.sent[1].id].channel_id

\* C35: a call of getOrCreateSessionKey that throws leaves the cached key,
\* the cached expiry and the keys created as they were and hands the caller
\* no key; the cache being as invalid as before, the next call that returns
\* creates a new key, caches it and returns it.
C35_FailedCreateLeavesCache ==
    /\ [][ pc = "init" /\ pc' = "threw"
           => /\ cachedSessionKey' = cachedSessionKey
              /\ sessionKeyExpiry' = sessionKeyExpiry
              /\ createdAt' = createdAt
              /\ currentSessionKey' = currentSessionKey ]_vars
    /\ [](pc = "threw" => ~cacheValid)
    /\ [][ pc = "init" /\ pc' = "called" /\ ~cacheValid
           => /\ cachedSessionKey' = cachedSessionKey + 1
              /\ createdAt'[cachedSessionKey'] = now
              /\ sessionKeyExpiry' =
                   now + (SESSION_KEY_TTL_MINUTES - SafetyMarginMinutes)
              /\ currentSessionKey' = cachedSessionKey' ]_vars

\* The first call threw; a later call created the first key and returned it.
C35_Witness ==
    /\ pc = "called"
    /\ failures = 1
    /\ cachedSessionKey = 1
    /\ currentSessionKey = 1
    /\ createdAt[1] = now
    /\ sessionKeyExpiry = now + (SESSION_KEY_TTL_MINUTES - SafetyMarginMinutes)

Keyed ==
    { r \in BagToSet(browser.network) :
        r.kind \in {"fetchChannels", "fetchMessages", "fetchLatestMessages"} }

\* C37: of the requests of fetchChannels, fetchMessages and
\* fetchLatestMessages no two that are in flight at the same time in one
\* hook have the same request key, and the keys a hook holds are exactly the
\* keys of its requests in flight: a key is taken when the request is
\* issued, a call finding it issues nothing, and it is given back when the
\* request settles, with a response or with an error.
C37_OneRequestPerKey ==
    /\ \A r \in Keyed : CopiesIn(r, browser.network) = 1
    /\ \A r1, r2 \in Keyed :
         r1.hook = r2.hook /\ requestKey(r1) = requestKey(r2) => r1 = r2
    /\ \A hook \in {"list", "channel"} :
         browser.inFlightRequests[hook] =
           { requestKey(r) : r \in { q \in Keyed : q.hook = hook } }

\* The first fetch of the messages of the current channel is in flight, its
\* key is held, and the next call of the interval would ask for the same
\* key.
C37_Witness ==
    /\ browser.view = "channel"
    /\ browser.currentChannel # "none"
    /\ browser.intervalPollingState = "none"
    /\ << "fetchMessages", browser.currentChannel, "initial" >>
         \in browser.inFlightRequests.channel
    /\ Cardinality({ r \in Keyed : r.kind = "fetchMessages"
                                   /\ r.id = browser.currentChannel }) = 1

\* The requests a step hands to the network.
Issued ==
    { r \in BagToSet(browser'.network) :
        CopiesIn(r, browser'.network) > CopiesIn(r, browser.network) }

\* The requests a sendMessage that is already running makes after its first
\* await: the transaction, the wait for it and the fetchMessages it awaits.
SendContinues(r) ==
    \/ r.kind \in {"sponsorAndExecuteTransaction", "waitForTransaction"}
    \/ r.kind = "fetchMessages" /\ r.awaited

\* C38 as stated: in the channel view no channel fetch, message fetch,
\* latest-message poll, load-more or send request is issued at a moment when
\* the session key is expired.
C38_NoRequestWhileExpired ==
    browser.expiredIo \cap
      {"getChannelById", "fetchMessages", "fetchLatestMessages",
       "getChannelMemberships", "sponsorAndExecuteTransaction"} = {}

\* C38, amended: with the session key expired, the mount effect, the
\* messages effect, the interval callback, handleLoadMore and
\* handleSendMessage check the expiration first and issue nothing; the only
\* requests issued with the key expired are those of a sendMessage that
\* passed the check before the key expired (its transaction, the wait for it
\* and the fetchMessages it awaits).
C38_TriggersCheckExpiration ==
    [][browser.sessionKey = "expired"
         => \A r \in Issued : SendContinues(r)]_vars

\* The key expired while a sendMessage was running and the poll was due: the
\* send went on to its transaction and to its fetch, the view issued nothing
\* else.
C38_Witness ==
    /\ browser.view = "channel"
    /\ browser.sessionKey = "expired"
    /\ browser.currentChannel # "none"
    /\ browser.expiredIo = {"sponsorAndExecuteTransaction",
                            "waitForTransaction", "fetchMessages"}
    /\ browser.hasMoreMessages

\* The fetchMessages and fetchLatestMessages requests that settle in a step.
SettledFetches ==
    { r \in BagToSet(browser.network) :
        /\ r.kind \in {"fetchMessages", "fetchLatestMessages"}
        /\ CopiesIn(r, browser'.network) < CopiesIn(r, browser.network) }

\* C39: once getChannelById has been called for a new channel (Channel
\* rendered with another channelId), the polling state is null or that of the
\* new channel, and a fetchMessages or fetchLatestMessages response for
\* another channel than the one shown changes neither the messages, nor the
\* polling state, nor the cursor.
C39_SwitchResetsForGood ==
    /\ [](browser.view = "channel"
            => browser.pollingState \in {"none", browser.channelId})
    /\ [][\A r \in SettledFetches :
            browser'.view = "channel" /\ r.id # browser.channelId
              => /\ browser'.messages = browser.messages
                 /\ browser'.pollingState = browser.pollingState
                 /\ browser'.messagesCursorRef = browser.messagesCursorRef]_vars

\* C40: after a successful refresh of the channel list (fetchChannels without
\* loadMore), a sendMessage never takes the member cap from memberCapCache or
\* membershipsCache entries that were cached before that refresh.
C40_RefreshInvalidatesMemberCap ==
    browser.resolved.source \in {"memberCapCache", "membershipsCache"}
      => ~browser.resolved.stale

====
